---- MODULE Spec2Model ----
(***************************************************************************)
(* Model of the ingestion core of the vending-stream dashboard.            *)
(*                                                                         *)
(* Part 1: the stream client, class WebSocketManager of                    *)
(* src/components/websocket.js.  One manager object, the browser           *)
(* WebSocket objects it creates and the timers it arms.  Every handler of  *)
(* the class is a function from manager state to manager state; an action  *)
(* applies one handler (with everything it calls) and commits the result.  *)
(* Time is abstract: a pending timer may fire at any moment.               *)
(***************************************************************************)
EXTENDS Integers, Sequences, FiniteSets, TLC

\* ------------------------------------------------------------------ bounds
MaxDetached == 1         \* live WebSocket objects this.ws no longer refers to
MaxQueue == 2            \* length of messageQueue
MaxReconnectTimers == 2  \* pending reconnect timers (handleReconnect)
MaxDelayedConnects == 1  \* pending 1 s connect timers (reset / updateUrl)

\* --------------------------------------------------------- program constants
MAX_RECONNECT_ATTEMPTS == 10
HEARTBEAT_INTERVAL == 30000

DISCONNECTED == "disconnected"
CONNECTING_STATE == "connecting"
CONNECTED == "connected"
RECONNECTING == "reconnecting"
CONNECTION_STATES == {DISCONNECTED, CONNECTING_STATE, CONNECTED, RECONNECTING}

\* WebSocket.readyState
WS_CONNECTING == "CONNECTING"
WS_OPEN == "OPEN"
WS_CLOSING == "CLOSING"
WS_CLOSED == "CLOSED"

NULL == "null"
\* the readyStates of a WebSocket whose close event is still to come
LiveStates == {WS_CONNECTING, WS_OPEN, WS_CLOSING}

\* The urls a manager can be given; new WebSocket(url) throws a SyntaxError
\* on the malformed one.
Urls == {"wss://a", "not a url"}
ValidUrl(u) == u # "not a url"

\* Values handed to send(): a string, a plain object, and an object that
\* JSON.stringify cannot encode (circular), for which it throws.
PING == "ping"
Messages == {"str", "obj", "cyclic"}
IsString(d) == d = "str"
Serializable(d) == d # "cyclic"
\* typeof data === 'string' ? data : JSON.stringify(data)
Serialize(d) == IF IsString(d) THEN d ELSE "json:" \o d

\* ------------------------------------------------- inbound payloads
\* A decoded JSON value: <<"undefined">> (absent field), <<"null">>,
\* <<"boolean", b>>, <<"number", n>>, <<"string", chars>> with chars a
\* sequence of characters, <<"array">>, or an object given by the three
\* fields the client looks at.  Prices are in thousandths of a currency
\* unit and timestamps in days, so that every number fits the checker's
\* integers (8.64e15 ms, the largest time a Date holds, is 1e8 days).
UNDEFINED == <<"undefined">>
JSNULL == <<"null">>
Str(chars) == <<"string", chars>>
Num(n) == <<"number", n>>
RECURSIVE Repeat(_, _)
Repeat(c, n) == IF n = 0 THEN <<>> ELSE <<c>> \o Repeat(c, n - 1)

PRODUCT_NAME_MAX == 50
MAX_DATE_DAYS == 100000000

Letters == {"C", "o", "l", "a", "b", "c", "D", "i", "e", "t"}
DigitVal == ("0" :> 0) @@ ("1" :> 1) @@ ("2" :> 2) @@ ("3" :> 3) @@ ("4" :> 4)
            @@ ("5" :> 5) @@ ("6" :> 6) @@ ("7" :> 7) @@ ("8" :> 8) @@ ("9" :> 9)
IsDigit(c) == c \in DOMAIN DigitVal
\* the class [a-zA-Z0-9\s\-_] of REGEX.PRODUCT_NAME
NameChar(c) == c \in Letters \/ IsDigit(c) \/ c \in {" ", "-", "_"}

Names == {UNDEFINED, Str(<<>>), Str(<<"C", "o", "l", "a">>),
          Str(<<"D", "i", "e", "t", " ", "C", "o", "l", "a", "-", "2", "_">>),
          Str(<<"<", "b", ">">>), Str(<<"C", "o", "l", "a", "$">>),
          Str(Repeat("a", PRODUCT_NAME_MAX)),
          Str(Repeat("a", PRODUCT_NAME_MAX + 1)),
          Num(7000), Num(0)}
Prices == {UNDEFINED, Num(1500), Num(-5000), Num(-1), Num(-5),
           Str(<<"$", "1", ".", "5", "0">>), Str(<<"3", ".">>),
           Str(<<"-", "5">>), Str(<<"a", "b", "c">>), Str(<<>>),
           JSNULL, <<"boolean", TRUE>>}
Timestamps == {UNDEFINED, Num(20000), Num(MAX_DATE_DAYS), Num(MAX_DATE_DAYS + 1),
               Str(<<"2", "0", "2", "4", "-", "0", "1", "-", "0", "1">>),
               Str(<<"a", "b", "c">>), JSNULL}

Object(n, p, ts) == [type |-> "object", productName |-> n, price |-> p,
                     timestamp |-> ts]
Scalar(ty) == [type |-> ty, productName |-> UNDEFINED, price |-> UNDEFINED,
               timestamp |-> UNDEFINED]
\* event.data of a message event, by what JSON.parse makes of it; "text" is
\* a payload JSON.parse throws on, which is then used as the raw string.
Payloads ==
  {Scalar(ty) : ty \in {"text", "string", "number", "null", "array"}}
    \cup {Object(n, p, ts) : n \in Names, p \in Prices, ts \in Timestamps}
NoPayload == Scalar("none")

\* JavaScript truthiness of a decoded value
Truthy(v) ==
  CASE v[1] = "undefined" -> FALSE
    [] v[1] = "null" -> FALSE
    [] v[1] = "boolean" -> v[2]
    [] v[1] = "number" -> v[2] # 0
    [] v[1] = "string" -> v[2] # <<>>
    [] OTHER -> TRUE

Abs(n) == IF n < 0 THEN -n ELSE n

\* the index after the run of digits that starts at i
RECURSIVE RunEnd(_, _)
RunEnd(t, i) == IF i <= Len(t) /\ IsDigit(t[i]) THEN RunEnd(t, i + 1) ELSE i

\* the number the digits t[i..j-1] spell
RECURSIVE IntOf(_, _, _)
IntOf(t, i, j) ==
  IF j <= i THEN 0 ELSE 10 * IntOf(t, i, j - 1) + DigitVal[t[j - 1]]

\* the first three decimals of the digits t[i..j-1], in thousandths
Thousandths(t, i, j) ==
  LET d(k) == IF i + k < j THEN DigitVal[t[i + k]] ELSE 0
  IN 100 * d(0) + 10 * d(1) + d(2)

\* text.match(REGEX.PRICE) with REGEX.PRICE = /\$?(\d+\.?\d*)/, then
\* parseFloat(match[1]): the leftmost match captures from the first digit
\* of the text; 0 when the text has no digit.
matchPrice(t) ==
  LET ds == {i \in 1..Len(t) : IsDigit(t[i])}
  IN IF ds = {} THEN 0
     ELSE LET i == CHOOSE k \in ds : \A m \in ds : k <= m
              j == RunEnd(t, i)
          IN IF j <= Len(t) /\ t[j] = "."
               THEN 1000 * IntOf(t, i, j) + Thousandths(t, j + 1, RunEnd(t, j + 1))
               ELSE 1000 * IntOf(t, i, j)

\* parseFloat(text.toFixed(2)): rounded to the cent, half away from zero
toFixed2(n) == (IF n < 0 THEN -1 ELSE 1) * 10 * ((Abs(n) + 5) \div 10)

extractPrice(v) ==
  IF v[1] = "number" THEN toFixed2(v[2])
  ELSE IF v[1] # "string" THEN 0
  ELSE matchPrice(v[2])

\* REGEX.PRODUCT_NAME.test(name), /^[a-zA-Z0-9\s\-_]{1,50}$/
testProductName(chars) ==
  /\ Len(chars) >= 1
  /\ Len(chars) <= PRODUCT_NAME_MAX
  /\ \A i \in 1..Len(chars) : NameChar(chars[i])

\* isNaN(new Date(v).getTime())
InvalidDate(v) ==
  CASE v[1] = "number" -> Abs(v[2]) > MAX_DATE_DAYS
    [] v[1] = "string" -> ~(v[2] # <<>> /\ IsDigit(v[2][1]))
    [] OTHER -> FALSE

validateSaleData(sale) ==
  IF sale.type \notin {"object", "array"}
    THEN <<"Sale must be an object">>
    ELSE
      (IF ~Truthy(sale.productName) \/ sale.productName[1] # "string"
         THEN <<"Product name is required and must be a string">>
         ELSE IF ~testProductName(sale.productName[2])
           THEN <<"Product name contains invalid characters">>
           ELSE <<>>)
      \* isNaN(price) never holds: extractPrice returns a number for every
      \* JSON value
      \o (IF sale.price # UNDEFINED /\ extractPrice(sale.price) < 0
            THEN <<"Price must be a valid positive number">>
            ELSE <<>>)
      \o (IF sale.timestamp # UNDEFINED /\ InvalidDate(sale.timestamp)
            THEN <<"Timestamp must be a valid date">>
            ELSE <<>>)

VARIABLES
  url,               \* this.url
  wsState,           \* this.ws: NULL, or the readyState of the WebSocket
  detached,          \* the live WebSocket objects this.ws no longer refers
                     \* to (their handlers are still bound to the manager):
                     \* how many there are in each readyState
  connectionState,   \* this.connectionState
  reconnectAttempts, \* this.reconnectAttempts
  isManualClose,     \* this.isManualClose
  messageQueue,      \* this.messageQueue
  heartbeatInterval, \* this.heartbeatInterval is set (not null)
  heartbeatTimers,   \* number of live setInterval timers
  connectionTimeout, \* this.connectionTimeout: "null", "armed" (the handle of
                     \* a pending timer) or "stale" (the handle of a fired one)
  orphanTimeouts,    \* pending connection timeouts no field refers to
  reconnectTimers,   \* pending reconnect timers of handleReconnect
  delayedConnects,   \* pending setTimeout(() => this.connect(), 1000)
  \* what the last handler did
  lastOp,            \* name of the handler
  events,            \* CustomEvents it dispatched, in order
  transmitted,       \* strings it passed to ws.send, in order
  ret,               \* return value of send(): "true", "false" or "none"
  newSockets,        \* WebSocket objects it constructed
  hung,              \* a loop of the handler never terminates
  inbound,           \* event.data when the handler was onMessage
  \* history
  gaveUpCount,       \* 'maxReconnectAttemptsReached' events since the last
                     \* open event or caller connect()/reset(); capped at 2
  sinceDisconnect,   \* disconnect() was called and the caller has not called
                     \* connect(), reset() or updateUrl() since
  terminal           \* the gave-up signal was dispatched and the caller has
                     \* not called connect() or reset() since

VARIABLES
  now,               \* Date.now(), in ticks of a quarter of an hour
  db,                \* storage.db is set (IndexedDB has opened)
  idbSales,          \* the records of the IndexedDB object store 'sales'
  lsSales,           \* getItem(STORAGE_KEYS.SALES_DATA, []): the list in
                     \* localStorage, empty when the key is absent
  pending,           \* the suspended async calls, in the order they
                     \* suspended: each awaits an IndexedDB request or
                     \* the microtask that resumes it
  salesData,         \* analytics.salesData, most recent first
  cache,             \* analytics.cache, by period
  nextSeq,           \* the number the next accepted sale gets (stands for
                     \* the identity of the event) 
  appOp,             \* the call or continuation that ran last
  appArg,            \* its argument
  appRet,            \* what it returned
  recomputed,        \* getAnalytics computed a fresh snapshot
  doneUpTo,          \* highest event number whose addSale returned true
  revenueIn,         \* the sum of the parsed prices of the accepted sales
  reloaded,          \* loadData has replaced the working set
  saved              \* the last saveSalesData: the sets a read could
                     \* return when it began, the set it was given, and
                     \* how far it is ("running", "complete", "failed")

VARIABLES
  inventory,         \* inventory.inventory: the records of the Map, in
                     \* insertion order
  stockAlerts,       \* inventory.stockAlerts: per product id the time of
                     \* the last alert, 0 when the Map has no entry
  lsInventory,       \* getItem(STORAGE_KEYS.INVENTORY_DATA, [])
  listeners,         \* the 'new-sale' listeners the inventory manager has
                     \* registered on document
  nextProductId,     \* stands for the next result of generateId('product')
  invOp,             \* the inventory operation that ran last
  invArg,            \* its argument
  invRet,            \* TRUE when it returned a product or true
  alerts,            \* the stock alerts it emitted, in order
  alertLog           \* per product id the time of the last alert emitted
                     \* for the record now in the map, 0 when none was

VARIABLES
  backoffAttempts,   \* reconnectAttempts as the backoff schedule sees it
  scheduledDelay,    \* the delay of the reconnect timer set last, in ms
  previousDelay      \* the delay of the one set before it

VARIABLES
  enableSounds       \* getItem(STORAGE_KEYS.SETTINGS,
                     \* DEFAULT_SETTINGS).enableSounds

mgrVars == <<url, wsState, detached, connectionState,
             reconnectAttempts, isManualClose, messageQueue,
             heartbeatInterval, heartbeatTimers, connectionTimeout,
             orphanTimeouts, reconnectTimers, delayedConnects>>
opVars == <<lastOp, events, transmitted, ret, newSockets, hung, inbound>>
histVars == <<gaveUpCount, sinceDisconnect, terminal>>
backoffVars == <<backoffAttempts, scheduledDelay, previousDelay>>
settingsVars == <<enableSounds>>
streamVars == <<mgrVars, opVars, histVars, backoffVars, settingsVars>>
storeVars == <<now, db, idbSales, lsSales, pending, saved>>
analyticsVars == <<salesData, cache, nextSeq, recomputed, doneUpTo,
                   revenueIn, reloaded>>
callVars == <<appOp, appArg, appRet>>
inventoryVars == <<inventory, stockAlerts, lsInventory, listeners,
                   nextProductId, invOp, invArg, invRet, alerts,
                   alertLog>>
appVars == <<storeVars, analyticsVars, callVars, inventoryVars>>
vars == <<streamVars, appVars>>

\* The manager, its sockets and timers as one value; the per-handler effect
\* fields start empty.
S == [url |-> url, wsState |-> wsState, detached |-> detached,
      connectionState |-> connectionState,
      reconnectAttempts |-> reconnectAttempts,
      isManualClose |-> isManualClose, messageQueue |-> messageQueue,
      heartbeatInterval |-> heartbeatInterval,
      heartbeatTimers |-> heartbeatTimers,
      connectionTimeout |-> connectionTimeout,
      orphanTimeouts |-> orphanTimeouts,
      reconnectTimers |-> reconnectTimers,
      delayedConnects |-> delayedConnects,
      events |-> <<>>, transmitted |-> <<>>, ret |-> "none",
      newSockets |-> 0, hung |-> FALSE, inbound |-> NoPayload,
      overflow |-> FALSE]

\* ------------------------------------------------------------- helpers
dispatchEvent(s, e) == [s EXCEPT !.events = Append(@, e)]

\* clearTimeout(this.connectionTimeout); this.connectionTimeout = null
clearConnectionTimeout(s) ==
  IF s.connectionTimeout # "null"
    THEN [s EXCEPT !.connectionTimeout = "null"]
    ELSE s

\* WebSocket.close() on this.ws: a connecting or open socket starts closing
\* and its close event is delivered later; otherwise nothing happens.
wsClose(s) ==
  IF s.wsState \in {WS_CONNECTING, WS_OPEN}
    THEN [s EXCEPT !.wsState = WS_CLOSING]
    ELSE s

Detached(s) == s.detached[WS_CONNECTING] + s.detached[WS_OPEN]
                 + s.detached[WS_CLOSING]

\* this.ws is overwritten: the object it referred to lives on, detached,
\* until its close event has been delivered.
dropWs(s) ==
  IF s.wsState \in LiveStates
    THEN IF Detached(s) >= MaxDetached
           THEN [s EXCEPT !.overflow = TRUE]
           ELSE [s EXCEPT !.detached[s.wsState] = @ + 1, !.wsState = NULL]
    ELSE [s EXCEPT !.wsState = NULL]

wsIsOpen(s) == s.wsState = WS_OPEN

\* ------------------------------------------------------------- handlers
setConnectionState(s, state) ==
  IF s.connectionState # state
    THEN dispatchEvent([s EXCEPT !.connectionState = state],
                       <<"stateChange", s.connectionState, state>>)
    ELSE s

stopHeartbeat(s) ==
  IF s.heartbeatInterval
    THEN [s EXCEPT !.heartbeatTimers = @ - 1, !.heartbeatInterval = FALSE]
    ELSE s

startHeartbeat(s) ==
  IF HEARTBEAT_INTERVAL = 0 THEN s
  ELSE LET t == stopHeartbeat(s)
       IN [t EXCEPT !.heartbeatTimers = @ + 1, !.heartbeatInterval = TRUE]

\* handleReconnect with > in place of >= in the exhaustion test
handleReconnectOffByOne(s) ==
  IF s.isManualClose THEN s
  ELSE IF s.reconnectAttempts > MAX_RECONNECT_ATTEMPTS
    THEN dispatchEvent(setConnectionState(s, DISCONNECTED),
                       <<"maxReconnectAttemptsReached">>)
    ELSE LET a == [s EXCEPT !.reconnectAttempts = @ + 1]
             b == setConnectionState(a, RECONNECTING)
         IN [b EXCEPT !.reconnectTimers = @ + 1]

handleReconnect(s) ==
  IF s.isManualClose THEN s
  ELSE IF s.reconnectAttempts >= MAX_RECONNECT_ATTEMPTS
    THEN dispatchEvent(setConnectionState(s, DISCONNECTED),
                       <<"maxReconnectAttemptsReached">>)
    ELSE LET a == [s EXCEPT !.reconnectAttempts = @ + 1]
             b == setConnectionState(a, RECONNECTING)
         IN [b EXCEPT !.reconnectTimers = @ + 1]

\* connect whose guard tests WebSocket.OPEN only
connectOpenOnly(s) ==
  IF s.wsState = WS_OPEN
    THEN s
    ELSE LET a == setConnectionState([s EXCEPT !.isManualClose = FALSE],
                                     CONNECTING_STATE)
         IN IF ~ValidUrl(a.url)
              THEN handleReconnect(a)
              ELSE LET b == dropWs(a)
                   IN [b EXCEPT
                        !.wsState = WS_CONNECTING,
                        !.newSockets = @ + 1,
                        !.orphanTimeouts =
                           IF b.connectionTimeout = "armed"
                             THEN @ + 1 ELSE @,
                        !.connectionTimeout = "armed"]

connect(s) ==
  IF s.wsState \in {WS_CONNECTING, WS_OPEN}
    THEN s
    ELSE LET a == setConnectionState([s EXCEPT !.isManualClose = FALSE],
                                     CONNECTING_STATE)
         IN IF ~ValidUrl(a.url)
              THEN handleReconnect(a)            \* new WebSocket throws
              ELSE LET b == dropWs(a)
                   IN [b EXCEPT
                        !.wsState = WS_CONNECTING,
                        !.newSockets = @ + 1,
                        !.orphanTimeouts =
                           IF b.connectionTimeout = "armed"
                             THEN @ + 1 ELSE @,
                        !.connectionTimeout = "armed"]

\* the callback of the 10 s connection-establishment timeout
connectionTimeoutCallback(s) ==
  IF s.wsState = WS_CONNECTING
    THEN handleReconnect(wsClose(s))
    ELSE s

disconnect(s) ==
  LET a == stopHeartbeat([s EXCEPT !.isManualClose = TRUE])
      b == clearConnectionTimeout(a)
      c == IF b.wsState # NULL THEN dropWs(wsClose(b)) ELSE b
  IN setConnectionState(c, DISCONNECTED)

\* send that reports success for a message it has only queued
sendQueuedIsSuccess(s, data) ==
  IF wsIsOpen(s)
    THEN IF Serializable(data)
           THEN [s EXCEPT !.transmitted = Append(@, Serialize(data)),
                          !.ret = "true"]
           ELSE [s EXCEPT !.ret = "false"]
    ELSE [s EXCEPT !.messageQueue = Append(@, data), !.ret = "true"]

send(s, data) ==
  IF wsIsOpen(s)
    THEN IF Serializable(data)
           THEN [s EXCEPT !.transmitted = Append(@, Serialize(data)),
                          !.ret = "true"]
           ELSE [s EXCEPT !.ret = "false"]       \* JSON.stringify throws
    ELSE [s EXCEPT !.messageQueue = Append(@, data), !.ret = "false"]

\* while (this.messageQueue.length > 0) this.send(this.messageQueue.shift())
\* When the transport is not open send() puts the message back, the state
\* the loop tests never changes and the loop does not end.
\* the flush with pop() in place of shift()
RECURSIVE flushQueueLifo(_)
flushQueueLifo(s) ==
  IF s.messageQueue = <<>> THEN s
  ELSE IF ~wsIsOpen(s) THEN [s EXCEPT !.hung = TRUE]
  ELSE flushQueueLifo(
         send([s EXCEPT !.messageQueue = SubSeq(@, 1, Len(@) - 1)],
              s.messageQueue[Len(s.messageQueue)]))

RECURSIVE flushQueue(_)
flushQueue(s) ==
  IF s.messageQueue = <<>> THEN s
  ELSE IF ~wsIsOpen(s) THEN [s EXCEPT !.hung = TRUE]
  ELSE flushQueue(send([s EXCEPT !.messageQueue = Tail(@)],
                       Head(s.messageQueue)))

onOpen(s) ==
  LET a == clearConnectionTimeout(s)
      b == setConnectionState(a, CONNECTED)
      c == startHeartbeat([b EXCEPT !.reconnectAttempts = 0])
      d == flushQueue(c)
  IN dispatchEvent([d EXCEPT !.ret = "none"], <<"connected">>)

\* data is what JSON.parse(event.data) returns, or event.data itself when
\* JSON.parse throws
onMessage(s, data) ==
  LET a == [s EXCEPT !.inbound = data]
  IN IF data.type \in {"object", "array"} /\ Truthy(data.productName)
          /\ Len(validateSaleData(data)) > 0
       THEN a
       ELSE dispatchEvent(a, <<"message">>)

onError(s) == dispatchEvent(s, <<"error">>)

onClose(s) ==
  LET a == clearConnectionTimeout(stopHeartbeat(s))
      b == dispatchEvent(a, <<"close">>)
  IN IF ~b.isManualClose THEN handleReconnect(b) ELSE b

\* the setInterval callback of startHeartbeat
heartbeatCallback(s) ==
  IF wsIsOpen(s) THEN [send(s, PING) EXCEPT !.ret = "none"] ELSE s

\* the setTimeout callback of handleReconnect
reconnectCallback(s) == IF ~s.isManualClose THEN connect(s) ELSE s

isConnected(s) == s.connectionState = CONNECTED /\ wsIsOpen(s)

updateUrl(s, newUrl) ==
  IF newUrl # s.url
    THEN LET wasConnected == isConnected(s)
             a == [s EXCEPT !.url = newUrl]
         IN IF wasConnected
              THEN [disconnect(a) EXCEPT !.delayedConnects = @ + 1]
              ELSE a
    ELSE s

reset(s) ==
  LET a == [s EXCEPT !.reconnectAttempts = 0, !.messageQueue = <<>>]
  IN IF isConnected(a)
       THEN [disconnect(a) EXCEPT !.delayedConnects = @ + 1]
       ELSE connect(a)

\* removeAllListeners() removes nothing: it passes fresh closures
destroy(s) ==
  LET a == stopHeartbeat([s EXCEPT !.isManualClose = TRUE])
  IN [disconnect(a) EXCEPT !.messageQueue = <<>>]

\* ------------------------------------------------------------- the machine
GaveUps(t) ==
  Cardinality({k \in DOMAIN t.events :
                 t.events[k] = <<"maxReconnectAttemptsReached">>})

Min(a, b) == IF a < b THEN a ELSE b

\* Commit the state a handler returns.  kind tells the history variables
\* what the step was: "caller-connect" (connect() or reset() by the
\* caller), "caller-url" (updateUrl), "caller-disconnect" (disconnect() or
\* destroy()), "open" (an open event) or "other".
Commit(t, op, kind) ==
  /\ ~t.overflow
  /\ Len(t.messageQueue) <= MaxQueue
  /\ t.reconnectTimers <= MaxReconnectTimers
  /\ t.delayedConnects <= MaxDelayedConnects
  /\ url' = t.url
  /\ wsState' = t.wsState
  /\ detached' = t.detached
  /\ connectionState' = t.connectionState
  /\ reconnectAttempts' = t.reconnectAttempts
  /\ isManualClose' = t.isManualClose
  /\ messageQueue' = t.messageQueue
  /\ heartbeatInterval' = t.heartbeatInterval
  /\ heartbeatTimers' = t.heartbeatTimers
  /\ connectionTimeout' = t.connectionTimeout
  /\ orphanTimeouts' = t.orphanTimeouts
  /\ reconnectTimers' = t.reconnectTimers
  /\ delayedConnects' = t.delayedConnects
  /\ lastOp' = op
  /\ events' = t.events
  /\ transmitted' = t.transmitted
  /\ ret' = t.ret
  /\ newSockets' = t.newSockets
  /\ hung' = t.hung
  /\ inbound' = t.inbound
  /\ gaveUpCount' =
       Min(2, GaveUps(t) + IF kind \in {"caller-connect", "open"}
                             THEN 0 ELSE gaveUpCount)
  /\ sinceDisconnect' =
       IF kind = "caller-disconnect" THEN TRUE
       ELSE IF kind \in {"caller-connect", "caller-url"} THEN FALSE
       ELSE sinceDisconnect
  /\ terminal' =
       IF GaveUps(t) > 0 THEN TRUE
       ELSE IF kind = "caller-connect" THEN FALSE
       ELSE terminal
  /\ UNCHANGED <<appVars, backoffVars, settingsVars>>

\* ---- the backoff of handleReconnect
RECONNECT_DELAY == 3000
MAX_DELAY == 30000
JITTER_RANGE == 1000
\* Math.random() * 1000, in whole milliseconds
Jitters == {0, 1, 2, 250, 500, 750, JITTER_RANGE - 2, JITTER_RANGE - 1}

RECURSIVE pow(_, _)
pow(b, n) == IF n = 0 THEN 1 ELSE b * pow(b, n - 1)

\* the backoff without its ceiling
delayUncapped(attempts, jitter) ==
  RECONNECT_DELAY * pow(2, attempts - 1) + jitter
\* const delay of handleReconnect, reconnectAttempts being incremented
delay(attempts, jitter) ==
  Min(RECONNECT_DELAY * pow(2, attempts - 1) + jitter, MAX_DELAY)

InitBackoff ==
  /\ backoffAttempts = 0
  /\ scheduledDelay = 0
  /\ previousDelay = 0

InitStream ==
  /\ url \in Urls
  /\ wsState = NULL
  /\ detached = [r \in LiveStates |-> 0]
  /\ connectionState = DISCONNECTED
  /\ reconnectAttempts = 0
  /\ isManualClose = FALSE
  /\ messageQueue = <<>>
  /\ heartbeatInterval = FALSE
  /\ heartbeatTimers = 0
  /\ connectionTimeout = "null"
  /\ orphanTimeouts = 0
  /\ reconnectTimers = 0
  /\ delayedConnects = 0
  /\ lastOp = "init"
  /\ events = <<>>
  /\ transmitted = <<>>
  /\ ret = "none"
  /\ newSockets = 0
  /\ hung = FALSE
  /\ inbound = NoPayload
  /\ gaveUpCount = 0
  /\ sinceDisconnect = FALSE
  /\ terminal = FALSE

(***************************************************************************)
(* Part 2: the event store (class StorageManager of src/unnamed/part_003)  *)
(* and the analytics engine (class AnalyticsManager of                     *)
(* src/components/charts.js).  An async method runs up to its await in one *)
(* step and is then suspended in pending; a later step completes what it   *)
(* awaits and runs its continuation.  IndexedDB serves the requests on the *)
(* 'sales' store in the order they were made; a microtask runs before any  *)
(* IndexedDB event.  The clock counts quarters of an hour and advances by *)
(* half a day where the 24 h of the cache matter and by a quarter of an    *)
(* hour where the 30 minutes of the alert cooldown do; the timestamp of a  *)
(* payload is in whole days.                                               *)
(***************************************************************************)
TICKS_PER_DAY == 96
HALF_DAY == TICKS_PER_DAY \div 2
TICKS_PER_HOUR == TICKS_PER_DAY \div 24
CACHE_EXPIRY == TICKS_PER_DAY       \* CONFIG.DATA.CACHE_EXPIRY, 24 h
MAX_FEED_ITEMS == 50                \* CONFIG.UI.MAX_FEED_ITEMS
StartDay == 20000                   \* the clock starts on 2024-10-04
DaysInPreviousMonth == 30           \* September 2024
TODAY == "today"
WEEK == "week"
MONTH == "month"
ALL == "all"
TIME_PERIODS == {TODAY, WEEK, MONTH, ALL}
\* the periods getAnalytics is called with
ReportPeriods == {TODAY, ALL}

MaxTicks == 2       \* ticks the clock advances
MaxSales == 2       \* sales addSale accepts
MaxPending == 2     \* async calls suspended at a time
MaxAppended == 102  \* sales appended one after another to localStorage

Cola == <<"C", "o", "l", "a">>
\* the sales handed to analytics.addSale: one without a timestamp, one
\* with a currency-string price dated a month ahead, and one with an
\* empty product name
AnalyticsSales ==
  {Object(Str(Cola), Num(1500), UNDEFINED),
   Object(Str(Cola), Str(<<"$", "2", ".", "2", "5">>), Num(StartDay + 30)),
   Object(Str(<<>>), Num(1000), UNDEFINED)}

\* sales dated now, with a price and free of charge, and sales dated
\* yesterday, a week (free of charge) and thirty days before the day the
\* clock starts
DatedSales ==
  {Object(Str(Cola), Num(1500), UNDEFINED),
   Object(Str(Cola), Num(0), UNDEFINED),
   Object(Str(Cola), Num(1500), Num(StartDay - 1)),
   Object(Str(Cola), Num(0), Num(StartDay - 7)),
   Object(Str(Cola), Num(1500), Num(StartDay - 30))}

\* a sale as the working set and the store hold it
Sale(name, price, ts, n) ==
  [productName |-> name, price |-> price, timestamp |-> ts, seq |-> n,
   hour |-> UNDEFINED, dayOfWeek |-> UNDEFINED]
NoSale == Sale(<<>>, 0, UNDEFINED, 0)
\* the arrays handed to storage.saveSalesData
StoredSales ==
  {Sale(Cola, 1500, Num(StartDay * TICKS_PER_DAY - k), 100 + k) : k \in 1..2}
SaveInputs ==
  {<<>>} \cup {<<r>> : r \in StoredSales}
    \cup {p \in StoredSales \X StoredSales : p[1] # p[2]}

\* a result of Date.now() as a value of a sale: a number, in ticks of the
\* clock where the dates of the payloads are in days
Received(t) == <<"number", t, "tick">>
\* the timestamp of a payload on the clock
Ticks(v) ==
  IF v[1] # "number" THEN v
  ELSE IF Len(v) = 3 THEN Num(v[2])
  ELSE Num(v[2] * TICKS_PER_DAY)

\* the valid sales the stream delivers to the application: one dated the
\* day before the clock starts, one without a timestamp
InboundSales ==
  {Object(Str(Cola), Num(1500), Num(StartDay - 1)),
   Object(Str(Cola), Num(1500), UNDEFINED)}

\* enrichedSale of handleSale(saleData, timestamp), where timestamp is the
\* Date.now() of onMessage (0 stands for a falsy one)
handleSale(sale, timestamp, t) ==
  [sale EXCEPT !.timestamp = IF timestamp # 0 THEN Received(timestamp)
                             ELSE Received(t)]

\* Array.prototype.push, the mirror image of unshift
push(list, x) == Append(list, x)
\* Array.prototype.unshift
unshift(list, x) == <<x>> \o list

RECURSIVE SumPrices(_)
SumPrices(data) ==
  IF data = <<>> THEN 0 ELSE Head(data).price + SumPrices(Tail(data))

\* ---- StorageManager
\* getItem(STORAGE_KEYS.SALES_DATA, [])
lsGet == lsSales

\* the record storage.addSale and saveSalesData write: the timestamp
\* defaults to Date.now()
saleData(sale, t) ==
  [sale EXCEPT !.timestamp = IF Truthy(@) THEN @ ELSE Num(t)]

\* the localStorage branch of storage.addSale
lsAddSale(record) ==
  LET pushed == Append(lsGet, record)
  IN IF Len(pushed) > MAX_FEED_ITEMS * 2
       THEN SubSeq(pushed, Len(pushed) - MAX_FEED_ITEMS + 1, Len(pushed))
       ELSE pushed

\* what a caller of getSalesData sees when db is not set
getSalesDataSync == lsGet

\* a suspended async call
Call(task, via, sale, arr, i, result) ==
  [task |-> task, via |-> via, sale |-> sale, arr |-> arr, i |-> i,
   result |-> result, afterSave |-> FALSE, acked |-> <<>>]

\* the suspended calls that can resume: the oldest that awaits a microtask,
\* or, when none awaits a microtask, the oldest IndexedDB request
Resumable ==
  LET micro == {k \in DOMAIN pending : pending[k].via = "micro"}
      first == IF micro # {} THEN micro ELSE DOMAIN pending
  IN {k \in first : \A m \in first : k <= m}

Without(k) == SubSeq(pending, 1, k - 1) \o SubSeq(pending, k + 1, Len(pending))

\* ---- AnalyticsManager
NoSnapshot == [period |-> "none", totalSales |-> 0, totalRevenue |-> 0,
               upTo |-> 0]
NoEntry == [data |-> NoSnapshot, timestamp |-> 0]
EmptyCache == [p \in TIME_PERIODS |-> NoEntry]

\* Date.prototype.getHours and getDay of new Date(timestamp), the clock
\* being the local one; tick 0 is the midnight of a Thursday
NaN == <<"number", "NaN">>
getHours(timestamp) ==
  IF timestamp[1] # "number" THEN NaN
  ELSE Num((timestamp[2] % TICKS_PER_DAY) \div TICKS_PER_HOUR)
getDay(timestamp) ==
  IF timestamp[1] # "number" THEN NaN
  ELSE Num(((timestamp[2] \div TICKS_PER_DAY) + 4) % 7)

enrichSaleData(sale, t, n) ==
  LET timestamp == IF Truthy(sale.timestamp) THEN Ticks(sale.timestamp)
                   ELSE Num(t)
  IN [Sale(sale.productName[2], extractPrice(sale.price), timestamp, n)
        EXCEPT !.hour = getHours(timestamp),
               !.dayOfWeek = getDay(timestamp)]

\* getTimePeriod(period) at time t
getTimePeriod(period, t) ==
  LET today == (t \div TICKS_PER_DAY) * TICKS_PER_DAY
  IN [start |-> CASE period = TODAY -> today
                  [] period = WEEK -> today - 7 * TICKS_PER_DAY
                  [] period = MONTH ->
                       today - DaysInPreviousMonth * TICKS_PER_DAY
                  [] OTHER -> 0,
      end |-> t]

\* timestamp >= start && timestamp <= end: a timestamp that is not a
\* number is converted, and the text of a date converts to NaN
RECURSIVE filterByTimePeriod(_, _, _)
filterByTimePeriod(data, period, t) ==
  LET range == getTimePeriod(period, t)
      InRange(item) ==
        /\ item.timestamp[1] = "number"
        /\ item.timestamp[2] >= range.start
        /\ item.timestamp[2] <= range.end
  IN IF data = <<>> THEN <<>>
     ELSE (IF InRange(Head(data)) THEN <<Head(data)>> ELSE <<>>)
            \o filterByTimePeriod(Tail(data), period, t)

\* the totals of calculateAnalytics; upTo is the number of sales accepted
\* when the snapshot was computed
calculateAnalytics(data, period) ==
  [period |-> period, totalSales |-> Len(data),
   totalRevenue |-> SumPrices(data), upTo |-> nextSeq - 1]

cacheHitTtlInclusive(period, useCache) ==
  /\ useCache
  /\ cache[period] # NoEntry
  /\ now - cache[period].timestamp <= CACHE_EXPIRY

\* the test of getAnalytics for returning the cached entry
cacheHit(period, useCache) ==
  /\ useCache
  /\ cache[period] # NoEntry
  /\ now - cache[period].timestamp < CACHE_EXPIRY

clearExpiredCache ==
  [p \in TIME_PERIODS |->
     IF cache[p] # NoEntry /\ now - cache[p].timestamp > CACHE_EXPIRY
       THEN NoEntry ELSE cache[p]]

addSaleAcceptsAll(sale) == sale.type = "object"

\* addSale goes on when validateSaleData reports no error
addSaleAccepts(sale) == Len(validateSaleData(sale)) = 0

NoSave == [old |-> {}, new |-> <<>>, state |-> "none"]

\* what a call returned, and what it was called with
RECURSIVE Gcd(_, _)
Gcd(a, b) == IF b = 0 THEN a ELSE Gcd(b, a % b)
\* a number that need not be whole, as a fraction in lowest terms with a
\* positive denominator
Rat(n, d) ==
  LET g == Gcd(IF n < 0 THEN -n ELSE n, d)
  IN <<n \div g, d \div g>>
RatEq(a, b) == a[1] * b[2] = b[1] * a[2]
Metric(current, previous, change) ==
  [current |-> current, previous |-> previous, change |-> change]
NoMetric == Metric(Rat(0, 1), Rat(0, 1), Rat(0, 1))
\* comparisonToPrevious when it is null
NoComparison == [null |-> TRUE, sales |-> NoMetric, revenue |-> NoMetric,
                 averagePurchase |-> NoMetric]

Nothing == [kind |-> "none", value |-> FALSE, snapshot |-> NoSnapshot,
            list |-> <<>>, comparison |-> NoComparison, info |-> <<>>]
Bool(b) == [Nothing EXCEPT !.kind = "boolean", !.value = b]
Snapshot(s) == [Nothing EXCEPT !.kind = "snapshot", !.snapshot = s]
List(l) == [Nothing EXCEPT !.kind = "list", !.list = l]
\* the call threw (an async method: its promise rejected)
Thrown == [Nothing EXCEPT !.kind = "throw"]

\* the window of getPreviousPeriodData(period) at time t; yesterday's
\* midnight is a day before today's
previousPeriod(period, t) ==
  LET today == (t \div TICKS_PER_DAY) * TICKS_PER_DAY
  IN CASE period = TODAY ->
            [start |-> today - TICKS_PER_DAY, end |-> today]
       [] period = WEEK ->
            [start |-> t - 14 * TICKS_PER_DAY, end |-> t - 7 * TICKS_PER_DAY]
       [] period = MONTH ->
            [start |-> t - 60 * TICKS_PER_DAY, end |-> t - 30 * TICKS_PER_DAY]
       [] OTHER -> [start |-> 0, end |-> 0]

\* timestamp >= startTime && timestamp < endTime
InPrevious(sale, period, t) ==
  /\ period \in {TODAY, WEEK, MONTH}
  /\ sale.timestamp[1] = "number"
  /\ sale.timestamp[2] >= previousPeriod(period, t).start
  /\ sale.timestamp[2] < previousPeriod(period, t).end

getPreviousPeriodData(data, period, t) ==
  LET Keep(sale) == InPrevious(sale, period, t)
  IN SelectSeq(data, Keep)

calculateBasicStats(data) ==
  [count |-> Rat(Len(data), 1), revenue |-> Rat(SumPrices(data), 1),
   average |-> IF Len(data) > 0 THEN Rat(SumPrices(data), Len(data))
               ELSE Rat(0, 1)]

\* the change taken for 100 whenever the previous value is 0
calculatePercentageChangeFlat(current, previous) ==
  IF previous[1] = 0 THEN Rat(100, 1)
  ELSE Rat((current[1] * previous[2] - previous[1] * current[2]) * 100,
           current[2] * previous[1])
\* calculatePercentageChange(current, previous), of values that are not
\* negative
calculatePercentageChange(current, previous) ==
  IF previous[1] = 0
    THEN (IF current[1] > 0 THEN Rat(100, 1) ELSE Rat(0, 1))
    ELSE Rat((current[1] * previous[2] - previous[1] * current[2]) * 100,
             current[2] * previous[1])

\* getComparisonToPrevious(period) at time t
getComparisonToPrevious(data, period, t) ==
  LET previousPeriodData == getPreviousPeriodData(data, period, t)
      currentStats == calculateBasicStats(filterByTimePeriod(data, period, t))
      previousStats == calculateBasicStats(previousPeriodData)
      Of(current, previous) ==
        Metric(current, previous,
               calculatePercentageChange(current, previous))
  IN IF Len(previousPeriodData) = 0 THEN NoComparison
     ELSE [null |-> FALSE,
           sales |-> Of(currentStats.count, previousStats.count),
           revenue |-> Of(currentStats.revenue, previousStats.revenue),
           averagePurchase |->
             Of(currentStats.average, previousStats.average)]

\* comparisonToPrevious of calculateAnalytics(data, period) at time t,
\* where data is the working set filtered by the period: it stays null
\* for no data
comparisonToPrevious(data, period, t) ==
  IF Len(filterByTimePeriod(data, period, t)) = 0 THEN NoComparison
  ELSE getComparisonToPrevious(data, period, t)

\* a value under the key that is not an array: the object a file gives as
\* its "sales" (no sale has the number 0)
NotAnArray == <<NoSale>>
IsArray(v) == v # NotAnArray

\* what localStorage holds after handleStorageQuotaExceeded
handleStorageQuotaExceeded ==
  IF IsArray(lsGet) /\ Len(lsGet) > 100
    THEN SubSeq(lsGet, Len(lsGet) - 49, Len(lsGet))
    ELSE lsGet

\* what localStorage holds after setItem(STORAGE_KEYS.SALES_DATA, value):
\* the value, or when localStorage.setItem throws for the quota what the
\* handler leaves
setItem(value, ok) == IF ok THEN value ELSE handleStorageQuotaExceeded

\* storage.addSale below its IndexedDB branch: what localStorage holds
\* after it and what it returns; push is not a function of a value that
\* is not an array
addSaleFallback(record, ok) ==
  IF ~IsArray(lsGet)
    THEN [ls |-> lsGet, ret |-> Thrown]
    ELSE [ls |-> setItem(lsAddSale(record), ok), ret |-> Bool(ok)]

\* the options of a query: no filter and no sort, a limit or none (0)
QueryLimits == {0, 1}
\* the filter, sort and limit steps of queryIndexedDB and of the
\* localStorage branch of getSalesWithFilter
applyOptions(results, limit) ==
  IF limit # 0 /\ limit < Len(results) THEN SubSeq(results, 1, limit)
  ELSE results
NoArg == [sale |-> NoPayload, record |-> NoSale, arr |-> <<>>,
          period |-> "none", useCache |-> FALSE, at |-> 0, limit |-> 0,
          afterSave |-> FALSE, acked |-> <<>>]

(***************************************************************************)
(* The inventory manager (components/inventory.js).  A record keeps the    *)
(* fields the stock rules read: id, name, currentStock, minStock, price    *)
(* (in thousandths) and totalSales.  The writes to localStorage succeed    *)
(* and settings.lowStockAlerts has its default.                            *)
(***************************************************************************)
lowStockThreshold == 5
outOfStockThreshold == 0
autoTrackEnabled == TRUE
lowStockAlerts == TRUE              \* DEFAULT_SETTINGS.lowStockAlerts
ALERT_COOLDOWN == 2                 \* alertCooldown, 30 minutes

MaxProductIds == 1  \* ids generateId('product') hands out
MaxTotalSales == 1  \* sales an inventory record counts
InitCalls == 1      \* initializeComponents calls inventory.init() once
ProductIds == 1..(MaxProductIds + 1)

ColaClassic == <<"C", "o", "l", "a", " ", "C", "l", "a", "s", "s", "i", "c">>
Diet == <<"D", "i", "e", "t">>

Product(id, name, stock, minStock, price, total) ==
  [id |-> id, name |-> name, currentStock |-> stock, minStock |-> minStock,
   price |-> price, totalSales |-> total]
NoProduct == Product(0, <<>>, 0, 0, 0, 0)

\* the argument of addProduct; an absent field is UNDEFINED
ProductData(name, stock, minStock, price) ==
  [name |-> name, currentStock |-> stock, minStock |-> minStock,
   price |-> price]
NoProductData == ProductData(UNDEFINED, UNDEFINED, UNDEFINED, UNDEFINED)
\* a product that passes validateProductData and one for each of its
\* four errors
ProductInputs ==
  {ProductData(Str(ColaClassic), Num(2), Num(1), Num(2500)),
   ProductData(Str(<<" ">>), Num(2), Num(1), Num(2500)),
   ProductData(Str(Diet), Num(-1), Num(1), Num(2500)),
   ProductData(Str(Diet), Num(2), Num(-1), Num(2500)),
   ProductData(Str(Diet), Num(2), Num(1), Num(-1000))}

\* the detail of the 'new-sale' events
InventorySales ==
  {Object(Str(<<"c", "o", "l", "a">>), Num(1500), UNDEFINED),
   Object(Str(<<>>), Num(1000), UNDEFINED)}

\* the detail of the 'new-sale' events of a product the inventory does
\* not track yet: its name as it is and in another spelling, a blank
\* name, and a sale with a negative price (analytics.addSale returns
\* false for it and handleSale goes on)
TrackedSales ==
  {Object(Str(<<"c", "o", "l", "a">>), Num(1500), UNDEFINED),
   Object(Str(<<"C", "o", "l", "a", " ">>), Num(1500), UNDEFINED),
   Object(Str(<<" ">>), Num(1500), UNDEFINED),
   Object(Str(Diet), Num(-5000), UNDEFINED)}

\* the arrays importInventory is given: a record of an earlier export
ImportedId == MaxProductIds + 1
ImportSets ==
  {<<Product(ImportedId, Diet, s, 1, 2500, 0)>> : s \in {-1, 2}}

\* what the user types into prompt(); JSNULL when the prompt is cancelled
PromptInputs == {JSNULL, Str(<<"-", "1">>), Str(<<"1">>)}

\* the text is an optionally signed run of digits
IsNumeral(chars) ==
  LET i == IF chars # <<>> /\ chars[1] = "-" THEN 2 ELSE 1
  IN i <= Len(chars) /\ RunEnd(chars, i) = Len(chars) + 1
\* parseInt of a numeral
parseInt(chars) ==
  IF chars[1] = "-" THEN -IntOf(chars, 2, Len(chars) + 1)
  ELSE IntOf(chars, 1, Len(chars) + 1)
\* parseFloat of a numeral, in thousandths
parseFloat(chars) == 1000 * parseInt(chars)
\* newValue !== null && !isNaN(newValue)
promptAccepted(v) == v # JSNULL /\ IsNumeral(v[2])

\* parseInt(x) || dflt and parseFloat(x) || dflt of a number or an absent
\* field
NumberOr(v, dflt) == IF v[1] = "number" /\ v[2] # 0 THEN v[2] ELSE dflt

LowerChar(c) == CASE c = "C" -> "c" [] c = "D" -> "d" [] OTHER -> c
toLowerCase(chars) == [i \in 1..Len(chars) |-> LowerChar(chars[i])]
RECURSIVE trimStart(_)
trimStart(chars) ==
  IF chars # <<>> /\ Head(chars) = " " THEN trimStart(Tail(chars)) ELSE chars
RECURSIVE trimEnd(_)
trimEnd(chars) ==
  IF chars # <<>> /\ chars[Len(chars)] = " "
    THEN trimEnd(SubSeq(chars, 1, Len(chars) - 1)) ELSE chars
trim(chars) == trimEnd(trimStart(chars))
\* s.includes(t)
includes(s, t) ==
  \E i \in 0..(Len(s) - Len(t)) : SubSeq(s, i + 1, i + Len(t)) = t

\* the keys of PRODUCT_MAPPING in the order of Object.entries: each
\* stands for its entry
PRODUCT_MAPPING ==
  <<
    <<"e", "n", "e", "r", "g", "y", " ", "d", "r", "i", "n", "k">>,
    <<"s", "o", "d", "a">>,
    <<"c", "o", "l", "a">>,
    <<"p", "e", "p", "s", "i">>,
    <<"c", "o", "k", "e">>,
    <<"w", "a", "t", "e", "r">>,
    <<"j", "u", "i", "c", "e">>,
    <<"c", "o", "f", "f", "e", "e">>,
    <<"t", "e", "a">>,
    <<"c", "h", "o", "c", "o", "l", "a", "t", "e">>,
    <<"c", "a", "n", "d", "y">>,
    <<"c", "h", "i", "p", "s">>,
    <<"p", "o", "p", "c", "o", "r", "n">>,
    <<"p", "r", "e", "t", "z", "e", "l", "s">>,
    <<"c", "o", "o", "k", "i", "e", "s">>,
    <<"n", "u", "t", "s">>,
    <<"c", "r", "a", "c", "k", "e", "r", "s">>,
    <<"g", "u", "m">>,
    <<"s", "a", "n", "d", "w", "i", "c", "h">>,
    <<"s", "a", "l", "a", "d">>,
    <<"f", "r", "u", "i", "t">>,
    <<"y", "o", "g", "u", "r", "t">>,
    <<"p", "r", "o", "t", "e", "i", "n">>,
    <<"g", "r", "a", "n", "o", "l", "a">>,
    <<"d", "e", "f", "a", "u", "l", "t">>
  >>
DEFAULT_KEY == <<"d", "e", "f", "a", "u", "l", "t">>

\* the parts the product names are made of
NameParts ==
  {
   <<>>,
   <<" ">>,
   <<"C", "o", "l", "a">>,
   <<"s", "o", "d", "a">>,
   <<" ", "w", "a", "t", "e", "r">>,
   <<"t", "e", "a">>,
   <<"e", "n", "e", "r", "g", "y", " ", "d", "r", "i", "n", "k">>,
   <<"D", "i", "e", "t", " ">>,
   <<"C", "a", "n", "d", "y">>,
   <<"s">>,
   <<"d", "r", "i", "n", "k">>,
   <<"n", "u", "t", "s">>
  }
\* the product names getProductInfo is called with
ProductNames == {a \o b : a \in NameParts, b \in NameParts}

\* the first key of the table that occurs in the name; the name has one
RECURSIVE firstMatch(_, _)
firstMatch(entries, product) ==
  IF entries = <<>> THEN DEFAULT_KEY
  ELSE IF Head(entries) # DEFAULT_KEY /\ includes(product, Head(entries))
    THEN Head(entries)
  ELSE firstMatch(Tail(entries), product)

\* the keys of the table from the last to the first
RECURSIVE Reversed(_)
Reversed(list) ==
  IF list = <<>> THEN <<>> ELSE Append(Reversed(Tail(list)), Head(list))

\* getProductInfo over the table in the opposite order
getProductInfoReversed(productName) ==
  LET product == trim(toLowerCase(productName))
  IN IF productName = <<>> THEN DEFAULT_KEY
     ELSE IF \E i \in DOMAIN PRODUCT_MAPPING : PRODUCT_MAPPING[i] = product
       THEN product
     ELSE firstMatch(Reversed(PRODUCT_MAPPING), product)
\* getProductInfo(productName) for a string: the key of the entry it
\* returns
getProductInfo(productName) ==
  LET product == trim(toLowerCase(productName))
  IN IF productName = <<>> THEN DEFAULT_KEY
     ELSE IF \E i \in DOMAIN PRODUCT_MAPPING : PRODUCT_MAPPING[i] = product
       THEN product
     ELSE firstMatch(PRODUCT_MAPPING, product)

\* ---- the distributions of calculateAnalytics
\* PRODUCT_MAPPING[key].category
categoryOfKey(key) ==
  LET i == CHOOSE i \in DOMAIN PRODUCT_MAPPING : PRODUCT_MAPPING[i] = key
  IN IF i <= 9 THEN "beverages"
     ELSE IF i <= 18 THEN "snacks"
     ELSE IF i <= 24 THEN "food"
     ELSE "other"

CATEGORIES == {"beverages", "snacks", "food", "other"}

\* sale.category || 'other': enrichSaleData gives a sale the category of
\* the entry of its product, and a record it did not enrich has none
categoryOf(sale) ==
  IF sale.hour = UNDEFINED THEN "other"
  ELSE categoryOfKey(getProductInfo(sale.productName))

\* categoryCounts of calculateAnalytics; topCategories lists the
\* categories that occur with these counts
categoryCounts(data) ==
  [c \in CATEGORIES |->
     Cardinality({i \in DOMAIN data : categoryOf(data[i]) = c})]

\* hourlyDistribution: a sale counts in the bucket of its hour when it
\* has one (the index NaN is none of the 24 buckets)
hourlyDistribution(data) ==
  [h \in 0..23 |-> Cardinality({i \in DOMAIN data : data[i].hour = Num(h)})]

\* dailyDistribution, likewise
dailyDistribution(data) ==
  [d \in 0..6 |->
     Cardinality({i \in DOMAIN data : data[i].dayOfWeek = Num(d)})]

\* the key of groupByTimeInterval(data, interval) for a timestamp: the
\* hour, the day, or the Sunday that begins the week
intervalKey(interval, timestamp) ==
  IF timestamp[1] # "number" THEN NaN
  ELSE LET day == timestamp[2] \div TICKS_PER_DAY
       IN CASE interval = "hour" -> Num(timestamp[2] \div TICKS_PER_HOUR)
            [] interval = "day" -> Num(day)
            [] OTHER -> Num(day - getDay(timestamp)[2])

\* the keys of the groups in the order groupByTimeInterval creates them
RECURSIVE groupKeys(_, _)
groupKeys(data, interval) ==
  IF data = <<>> THEN <<>>
  ELSE LET rest == groupKeys(SubSeq(data, 1, Len(data) - 1), interval)
           key == intervalKey(interval, data[Len(data)].timestamp)
       IN IF \E i \in DOMAIN rest : rest[i] = key THEN rest
          ELSE Append(rest, key)

\* Array.prototype.sort((a, b) => a.timestamp - b.timestamp), which is
\* stable
RECURSIVE sortByTimestamp(_)
sortByTimestamp(list) ==
  IF list = <<>> THEN <<>>
  ELSE LET last == list[Len(list)]
           sorted == sortByTimestamp(SubSeq(list, 1, Len(list) - 1))
           before == SelectSeq(sorted,
                       LAMBDA e : e.timestamp <= last.timestamp)
           after == SelectSeq(sorted,
                       LAMBDA e : e.timestamp > last.timestamp)
       IN before \o <<last>> \o after

\* generateTimeSeriesData(data, period) without the sort
timeSeriesGroups(data, period) ==
  LET interval == CASE period = TODAY -> "hour"
                    [] period = WEEK -> "day"
                    [] period = MONTH -> "day"
                    [] OTHER -> "week"
      keys == groupKeys(data, interval)
      group(key) ==
        SelectSeq(data,
          LAMBDA sale : intervalKey(interval, sale.timestamp) = key)
  IN [k \in DOMAIN keys |->
        [timestamp |-> group(keys[k])[1].timestamp[2],
         sales |-> Len(group(keys[k])),
         revenue |-> SumPrices(group(keys[k]))]]

\* generateTimeSeriesData(data, period)
generateTimeSeriesData(data, period) ==
  sortByTimestamp(timeSeriesGroups(data, period))

\* the distributions of the snapshot calculateAnalytics(data, period)
distributions(data, period) ==
  [hourlyDistribution |-> hourlyDistribution(data),
   dailyDistribution |-> dailyDistribution(data),
   categoryCounts |-> categoryCounts(data),
   timeSeriesData |-> generateTimeSeriesData(data, period)]

\* Map.get, Map.set and Map.delete on the records in insertion order
MapIndex(inv, id) ==
  IF \E i \in DOMAIN inv : inv[i].id = id
    THEN CHOOSE i \in DOMAIN inv : inv[i].id = id ELSE 0
MapSet(inv, product) ==
  IF MapIndex(inv, product.id) # 0
    THEN [inv EXCEPT ![MapIndex(inv, product.id)] = product]
    ELSE Append(inv, product)
MapDelete(inv, id) == SelectSeq(inv, LAMBDA p : p.id # id)
RECURSIVE MapOf(_)
MapOf(items) ==
  IF items = <<>> THEN <<>>
  ELSE MapSet(MapOf(SubSeq(items, 1, Len(items) - 1)), items[Len(items)])

\* the index of the record findProductByName returns, 0 for null
findProductByName(inv, productName) ==
  LET normalizedName == trim(toLowerCase(productName))
      exact == {i \in DOMAIN inv :
                  trim(toLowerCase(inv[i].name)) = normalizedName}
      partial == {i \in DOMAIN inv :
                    \/ includes(toLowerCase(inv[i].name), normalizedName)
                    \/ includes(normalizedName, toLowerCase(inv[i].name))}
      first(set) == CHOOSE i \in set : \A j \in set : i <= j
  IN IF exact # {} THEN first(exact)
     ELSE IF partial # {} THEN first(partial)
     ELSE 0

\* The inventory manager as one value: `checks' are the products whose
\* checkStockLevel waits behind the await of addProduct or updateStock.
NoAlerts == [id \in ProductIds |-> 0]
InvState ==
  [inventory |-> inventory, stockAlerts |-> stockAlerts,
   lsInventory |-> lsInventory, nextProductId |-> nextProductId,
   alertLog |-> alertLog, alerts |-> <<>>, checks |-> <<>>, ret |-> FALSE]

saveInventoryData(I) == [I EXCEPT !.lsInventory = I.inventory]

validateProductData(product) ==
  (IF ~Truthy(product.name) \/ trim(product.name[2]) = <<>>
     THEN <<"Product name is required">> ELSE <<>>)
  \o (IF product.currentStock < 0
        THEN <<"Current stock cannot be negative">> ELSE <<>>)
  \o (IF product.price < 0 THEN <<"Price cannot be negative">> ELSE <<>>)
  \o (IF product.minStock < 0
        THEN <<"Minimum stock cannot be negative">> ELSE <<>>)

\* addProduct up to its await; generateId has a fresh id to give
addProduct(I, productData) ==
  LET product == [id |-> I.nextProductId,
                  name |-> productData.name,
                  currentStock |-> NumberOr(productData.currentStock, 0),
                  minStock |->
                    NumberOr(productData.minStock, lowStockThreshold),
                  price |-> NumberOr(productData.price, 0),
                  totalSales |-> 0]
  IN IF Len(validateProductData(product)) > 0
       THEN [I EXCEPT !.ret = FALSE]
       ELSE saveInventoryData(
              [I EXCEPT !.inventory =
                          MapSet(@, [product EXCEPT !.name = @[2]]),
                        !.nextProductId = @ + 1,
                        !.checks = Append(@, product.id),
                        !.ret = TRUE])

updateStockNoClamp(I, productId, newStock) ==
  LET i == MapIndex(I.inventory, productId)
  IN IF i = 0 THEN [I EXCEPT !.ret = FALSE]
     ELSE saveInventoryData(
            [I EXCEPT !.inventory[i].currentStock = newStock,
                      !.checks = Append(@, productId),
                      !.ret = TRUE])

\* updateStock up to its await
updateStock(I, productId, newStock) ==
  LET i == MapIndex(I.inventory, productId)
  IN IF i = 0 THEN [I EXCEPT !.ret = FALSE]
     ELSE saveInventoryData(
            [I EXCEPT !.inventory[i].currentStock =
                        IF newStock < 0 THEN 0 ELSE newStock,
                      !.checks = Append(@, productId),
                      !.ret = TRUE])

removeProduct(I, productId) ==
  IF MapIndex(I.inventory, productId) = 0 THEN [I EXCEPT !.ret = FALSE]
  ELSE saveInventoryData(
         [I EXCEPT !.inventory = MapDelete(@, productId),
                   !.stockAlerts[productId] = 0,
                   !.alertLog[productId] = 0,
                   !.ret = TRUE])

\* the listener that adds a product for every sale
handleSaleEventAlwaysAdds(I, sale) ==
  IF ~Truthy(sale.productName) THEN I
  ELSE addProduct(I, ProductData(sale.productName, Num(0), UNDEFINED,
                                 Num(extractPrice(sale.price))))
\* the listener of 'new-sale'
handleSaleEvent(I, sale) ==
  IF ~Truthy(sale.productName) THEN I
  ELSE
    LET i == findProductByName(I.inventory, sale.productName[2])
    IN IF i # 0
         THEN LET product == I.inventory[i]
                  newStock == IF product.currentStock - 1 < 0 THEN 0
                              ELSE product.currentStock - 1
              IN updateStock(
                   [I EXCEPT !.inventory[i].totalSales = @ + 1],
                   product.id, newStock)
         ELSE IF autoTrackEnabled
           THEN addProduct(I,
                  ProductData(sale.productName, Num(0), UNDEFINED,
                              Num(extractPrice(sale.price))))
           ELSE I

\* document.dispatchEvent: the n listeners run one after the other
RECURSIVE dispatchNewSale(_, _, _)
dispatchNewSale(I, sale, n) ==
  IF n = 0 THEN I
  ELSE handleSaleEvent(dispatchNewSale(I, sale, n - 1), sale)

checkStockLevelNoCooldown(I, productId, t) ==
  LET i == MapIndex(I.inventory, productId)
      lastAlert == I.stockAlerts[productId]
      alert(kind) ==
        [I EXCEPT !.stockAlerts[productId] = t,
                  !.alertLog[productId] = t,
                  !.alerts = Append(@, [id |-> productId, kind |-> kind,
                                        stock |-> I.inventory[i].currentStock,
                                        at |-> t,
                                        prev |-> I.alertLog[productId]])]
  IN IF ~lowStockAlerts \/ i = 0 THEN I
     ELSE IF I.inventory[i].currentStock <= outOfStockThreshold
       THEN alert("out")
     ELSE IF I.inventory[i].currentStock <=
               (IF I.inventory[i].minStock # 0 THEN I.inventory[i].minStock
                ELSE lowStockThreshold)
       THEN alert("low")
     ELSE I

\* checkStockLevel(product) at time t; an alert is recorded with the stock
\* it reports and the time of the record's previous alert
checkStockLevel(I, productId, t) ==
  LET i == MapIndex(I.inventory, productId)
      lastAlert == I.stockAlerts[productId]
      alert(kind) ==
        [I EXCEPT !.stockAlerts[productId] = t,
                  !.alertLog[productId] = t,
                  !.alerts = Append(@, [id |-> productId, kind |-> kind,
                                        stock |-> I.inventory[i].currentStock,
                                        at |-> t,
                                        prev |-> I.alertLog[productId]])]
  IN IF ~lowStockAlerts \/ i = 0 THEN I
     ELSE IF lastAlert # 0 /\ t - lastAlert < ALERT_COOLDOWN THEN I
     ELSE IF I.inventory[i].currentStock <= outOfStockThreshold
       THEN alert("out")
     ELSE IF I.inventory[i].currentStock <=
               (IF I.inventory[i].minStock # 0 THEN I.inventory[i].minStock
                ELSE lowStockThreshold)
       THEN alert("low")
     ELSE I

\* the continuations of addProduct and updateStock, in the order they
\* suspended
RECURSIVE settle(_, _)
settle(I, t) ==
  IF I.checks = <<>> THEN I
  ELSE settle(checkStockLevel([I EXCEPT !.checks = Tail(@)],
                              Head(I.checks), t), t)

importInventory(I, data) ==
  saveInventoryData([I EXCEPT !.inventory = MapOf(data), !.ret = TRUE])

\* what an inventory operation was called with
NoInvArg == [id |-> 0, data |-> NoProductData, sale |-> NoPayload,
             text |-> JSNULL, items |-> <<>>]

InitInventory ==
  /\ inventory = <<>>
  /\ stockAlerts = NoAlerts
  /\ lsInventory = <<>>
  /\ listeners = 1
  /\ nextProductId = 1
  /\ invOp = "constructor"
  /\ invArg = NoInvArg
  /\ invRet = FALSE
  /\ alerts = <<>>
  /\ alertLog = NoAlerts

InitApp ==
  /\ now = StartDay * TICKS_PER_DAY
  /\ db = FALSE
  /\ idbSales = <<>>
  /\ lsSales = <<>>
  /\ pending = <<>>
  /\ saved = NoSave
  /\ salesData = <<>>
  /\ cache = EmptyCache
  /\ nextSeq = 1
  /\ recomputed = FALSE
  /\ doneUpTo = 0
  /\ revenueIn = 0
  /\ reloaded = FALSE
  /\ appOp = "init"
  /\ appArg = NoArg
  /\ appRet = Nothing
  /\ InitInventory

\* DEFAULT_SETTINGS.enableSounds
InitSettings == enableSounds = TRUE

Init == InitStream /\ InitBackoff /\ InitApp /\ InitSettings

\* the stream client is constructed with a well-formed url and left alone
InitIdle == Init /\ ValidUrl(url)

(***************************************************************************)
(* The actions of part 1.                                                  *)
(***************************************************************************)
\* ---- calls by the owner of the manager
Connect == Commit(connect(S), "connect", "caller-connect")

Disconnect == Commit(disconnect(S), "disconnect", "caller-disconnect")

Send == \E d \in Messages : Commit(send(S, d), "send", "other")

UpdateUrl == \E u \in Urls : Commit(updateUrl(S, u), "updateUrl", "caller-url")

Reset == Commit(reset(S), "reset", "caller-connect")

Destroy == Commit(destroy(S), "destroy", "caller-disconnect")

\* ---- events of the WebSocket objects
\* The WebSocket objects an event can come from: "ws" is the one this.ws
\* refers to, "detached" one it no longer refers to.
Sockets(s) ==
  {<<"ws", r>> : r \in {s.wsState} \cap LiveStates}
    \cup {<<"detached", r>> : r \in {q \in LiveStates : s.detached[q] > 0}}

\* the readyState of socket k becomes r
setReadyState(s, k, r) ==
  IF k[1] = "ws"
    THEN [s EXCEPT !.wsState = r]
    ELSE [s EXCEPT !.detached =
            [q \in LiveStates |->
               @[q] - (IF q = k[2] THEN 1 ELSE 0)
                    + (IF q = r THEN 1 ELSE 0)]]

\* open: the connection of a connecting socket is established
SocketOpen ==
  \E k \in Sockets(S) :
    /\ k[2] = WS_CONNECTING
    /\ Commit(onOpen(setReadyState(S, k, WS_OPEN)), "onOpen", "open")

\* the server starts the closing handshake of an open socket
SocketClosing ==
  \E k \in Sockets(S) :
    /\ k[2] = WS_OPEN
    /\ Commit(setReadyState(S, k, WS_CLOSING), "closing", "other")

\* close: the connection of a socket ends (failed attempt, lost connection
\* or completed closing handshake); withError: an error event precedes the
\* close event in the same task.
SocketClose ==
  \E k \in Sockets(S), withError \in BOOLEAN :
    LET a == setReadyState(S, k, WS_CLOSED)
        b == IF withError THEN onError(a) ELSE a
    IN Commit(onClose(b),
              IF withError THEN "onError+onClose" ELSE "onClose",
              "other")

\* message: an open socket delivers a payload drawn from P
SocketMessage(P) ==
  \E k \in Sockets(S), data \in P :
    /\ k[2] = WS_OPEN
    /\ Commit(onMessage(S, data), "onMessage", "other")

\* ---- timers
\* the pending connection timeouts: the one this.connectionTimeout refers
\* to and those whose handle a later connect() has overwritten
PendingTimeouts(s) ==
  {"held" : x \in {s.connectionTimeout} \cap {"armed"}}
    \cup {"orphan" : x \in {s.orphanTimeouts} \ {0}}

ConnectionTimeout ==
  \E which \in PendingTimeouts(S) :
    Commit(connectionTimeoutCallback(
             IF which = "held"
               THEN [S EXCEPT !.connectionTimeout = "stale"]
               ELSE [S EXCEPT !.orphanTimeouts = @ - 1]),
           "connectionTimeout", "other")

ReconnectTimer ==
  /\ reconnectTimers > 0
  /\ Commit(reconnectCallback([S EXCEPT !.reconnectTimers = @ - 1]),
            "reconnectTimer", "other")

DelayedConnect ==
  /\ delayedConnects > 0
  /\ Commit(connect([S EXCEPT !.delayedConnects = @ - 1]),
            "delayedConnect", "other")

Heartbeat ==
  /\ heartbeatTimers > 0
  /\ Commit(heartbeatCallback(S), "heartbeat", "other")

\* In the specification of the whole client the stream carries two
\* payloads, a sale and a malformed sale; SpecInbound carries all of them.
SamplePayloads ==
  {Object(Str(<<"C", "o", "l", "a">>), Num(1500), UNDEFINED),
   Object(Str(<<"<", "b", ">">>), Num(1500), UNDEFINED)}

Next ==
  \/ Connect
  \/ Disconnect
  \/ Send
  \/ UpdateUrl
  \/ Reset
  \/ Destroy
  \/ SocketOpen
  \/ SocketClosing
  \/ SocketClose
  \/ SocketMessage(SamplePayloads)
  \/ ConnectionTimeout
  \/ ReconnectTimer
  \/ DelayedConnect
  \/ Heartbeat

Spec == Init /\ [][Next]_vars

\* The client facing an endpoint that never accepts a connection: no open
\* event, no disconnect(), no reset().  The caller calls connect() when the
\* client is disconnected and has no live socket.  The order of events
\* follows the clock: the close event of a socket the client has closed
\* arrives within milliseconds, before any timer of seconds fires, and two
\* reconnect timers armed by the same failure are at most the jitter (1 s)
\* apart, so both fire before the 10 s timeout of the socket the first one
\* opens.  Every pending timer fires and every socket gets its close event.
NoSocketClosing == wsState # WS_CLOSING /\ detached[WS_CLOSING] = 0

FailConnect ==
  /\ connectionState = DISCONNECTED
  /\ wsState \notin LiveStates
  /\ Connect

FailTimeout ==
  /\ NoSocketClosing
  /\ reconnectTimers = 0
  /\ ConnectionTimeout

FailReconnect ==
  /\ NoSocketClosing
  /\ ReconnectTimer

NextFail ==
  \/ FailConnect
  \/ SocketClose
  \/ FailTimeout
  \/ FailReconnect

SpecFail ==
  /\ Init
  /\ [][NextFail]_vars
  /\ WF_vars(SocketClose)
  /\ WF_vars(FailTimeout)
  /\ WF_vars(FailReconnect)

\* The inbound path on its own: a connection is opened and delivers every
\* payload of Payloads.
NextInbound ==
  \/ Connect
  \/ SocketOpen
  \/ SocketMessage(Payloads)

SpecInbound == Init /\ [][NextInbound]_vars

\* ---- the backoff schedule on its own
\* handleReconnect below its guards: it counts the attempt and sets the
\* timer of the next connect
ScheduleReconnect ==
  \E jitter \in Jitters :
    /\ backoffAttempts < MAX_RECONNECT_ATTEMPTS
    /\ backoffAttempts' = backoffAttempts + 1
    /\ scheduledDelay' = delay(backoffAttempts + 1, jitter)
    /\ previousDelay' = scheduledDelay
    /\ UNCHANGED <<mgrVars, opVars, histVars, appVars, settingsVars>>

\* onOpen: this.reconnectAttempts = 0
ResetAttempts ==
  /\ backoffAttempts > 0
  /\ backoffAttempts' = 0
  /\ scheduledDelay' = 0
  /\ previousDelay' = 0
  /\ UNCHANGED <<mgrVars, opVars, histVars, appVars, settingsVars>>

NextBackoff ==
  \/ ScheduleReconnect
  \/ ResetAttempts

SpecBackoff == Init /\ [][NextBackoff]_vars

\* ---- the event store and the analytics engine in action
\* the clock advances
Tick(step) ==
  /\ now < StartDay * TICKS_PER_DAY + MaxTicks * step
  /\ now' = now + step
  /\ UNCHANGED <<streamVars, inventoryVars, db, idbSales, lsSales, pending, saved,
                 analyticsVars, callVars>>

\* request.onsuccess of initIndexedDB
IdbOpenSuccess ==
  /\ ~db
  /\ db' = TRUE
  /\ appOp' = "initIndexedDB:done"
  /\ appArg' = NoArg
  /\ appRet' = Nothing
  /\ UNCHANGED <<streamVars, inventoryVars, now, idbSales, lsSales, pending, saved,
                 analyticsVars>>

\* analytics.addSale(sale) up to its await, as the call op with the
\* argument arg
analyticsAddSale(sale, arg, op) ==
    /\ appArg' = arg
    /\ IF ~addSaleAccepts(sale)
         THEN /\ appOp' = op.rejected
              /\ appRet' = Bool(FALSE)
              /\ UNCHANGED <<streamVars, inventoryVars, storeVars, analyticsVars>>
         ELSE LET enriched == enrichSaleData(sale, now, nextSeq)
                  record == saleData(enriched, now)
              IN /\ nextSeq <= MaxSales
                 /\ Len(pending) < MaxPending
                 /\ salesData' = unshift(salesData, enriched)
                 /\ nextSeq' = nextSeq + 1
                 /\ revenueIn' = revenueIn + extractPrice(sale.price)
                 /\ IF db
                      THEN /\ pending' = Append(pending,
                                  Call("addSale", "idb", record, <<>>, 0, <<>>))
                           /\ UNCHANGED lsSales
                      ELSE /\ lsSales' = lsAddSale(record)
                           /\ pending' = Append(pending,
                                  Call("addSale", "micro", record, <<>>, 0, <<>>))
                 /\ appOp' = op.await
                 /\ appRet' = Nothing
                 /\ UNCHANGED <<streamVars, inventoryVars, now, db, idbSales, saved, cache,
                                recomputed, doneUpTo, reloaded>>

\* analytics.addSale(sale), called by itself
AddSale ==
  \E sale \in AnalyticsSales :
    analyticsAddSale(sale, [NoArg EXCEPT !.sale = sale],
                     [rejected |-> "addSale", await |-> "addSale:await"])

\* analytics.addSale(sale) for the sales of the past days
AddDatedSale ==
  \E sale \in DatedSales :
    analyticsAddSale(sale, [NoArg EXCEPT !.sale = sale],
                     [rejected |-> "addSale", await |-> "addSale:await"])

\* a 'message' event of the stream client that carries a sale: the
\* listener handleWebSocketMessage and handleSale up to its await of
\* analytics.addSale, while the display is not paused.  onMessage stamps
\* the event with Date.now() and dispatches it in the same task.
HandleSale ==
  \E data \in InboundSales :
    analyticsAddSale(handleSale(data, now, now),
                     [NoArg EXCEPT !.sale = data, !.at = now],
                     [rejected |-> "handleSale",
                      await |-> "handleSale:await"])

\* the add request of storage.addSale completes (its error sends
\* storage.addSale to localStorage), then analytics.addSale goes on:
\* invalidateCache(), return true
ResumeAddSale ==
  \E k \in Resumable, ok \in BOOLEAN :
    LET c == pending[k]
    IN /\ c.task = "addSale"
       /\ c.via = "micro" => ok
       /\ pending' = Without(k)
       /\ idbSales' = IF c.via = "idb" /\ ok THEN Append(idbSales, c.sale)
                       ELSE idbSales
       /\ lsSales' = IF c.via = "idb" /\ ~ok THEN lsAddSale(c.sale)
                      ELSE lsSales
       /\ cache' = EmptyCache
       /\ doneUpTo' = IF c.sale.seq > doneUpTo THEN c.sale.seq ELSE doneUpTo
       /\ appOp' = "addSale:done"
       /\ appArg' = [NoArg EXCEPT !.record = c.sale]
       /\ appRet' = Bool(TRUE)
       /\ UNCHANGED <<streamVars, inventoryVars, now, db, saved, salesData, nextSeq,
                      recomputed, revenueIn, reloaded>>

\* analytics.getAnalytics(period, useCache)
GetAnalytics ==
  \E period \in ReportPeriods, useCache \in BOOLEAN :
    LET hit == cacheHit(period, useCache)
        analytics ==
          calculateAnalytics(filterByTimePeriod(salesData, period, now),
                             period)
        entry == IF hit THEN cache[period]
                 ELSE [data |-> analytics, timestamp |-> now]
    IN /\ cache' = [cache EXCEPT ![period] = entry]
       /\ recomputed' = ~hit
       /\ appOp' = "getAnalytics"
       /\ appArg' = [NoArg EXCEPT !.period = period,
                                  !.useCache = useCache, !.at = now]
       /\ appRet' = Snapshot(entry.data)
       /\ UNCHANGED <<streamVars, inventoryVars, storeVars, salesData, nextSeq, doneUpTo,
                      revenueIn, reloaded>>

\* analytics.getAnalytics(period) that finds no fresh entry in the cache,
\* with the distributions and the comparison to the previous period of
\* the snapshot it computes
GetAnalyticsFresh ==
  \E period \in TIME_PERIODS :
    LET data == filterByTimePeriod(salesData, period, now)
        analytics == calculateAnalytics(data, period)
    IN /\ ~cacheHit(period, TRUE)
       /\ cache' = [cache EXCEPT ![period] =
                                  [data |-> analytics, timestamp |-> now]]
       /\ recomputed' = TRUE
       /\ appOp' = "getAnalytics"
       /\ appArg' = [NoArg EXCEPT !.period = period, !.useCache = TRUE,
                                  !.at = now]
       /\ appRet' = [Snapshot(analytics) EXCEPT
                       !.info = distributions(data, period),
                       !.comparison =
                          comparisonToPrevious(salesData, period, now)]
       /\ UNCHANGED <<streamVars, inventoryVars, storeVars, salesData,
                      nextSeq, doneUpTo, revenueIn, reloaded>>

\* getProductInfo(productName), as enrichSaleData calls it for the name of
\* a sale
GetProductInfo ==
  \E name \in ProductNames :
    /\ appOp' = "getProductInfo"
    /\ appArg' = [NoArg EXCEPT !.sale = Object(Str(name), UNDEFINED,
                                               UNDEFINED)]
    /\ appRet' = [Nothing EXCEPT !.kind = "info",
                                 !.info = getProductInfo(name)]
    /\ UNCHANGED <<streamVars, inventoryVars, storeVars, analyticsVars>>

\* analytics.getComparisonToPrevious(period), which calculateAnalytics
\* calls for the comparisonToPrevious of a snapshot that has data
GetComparisonToPrevious ==
  \E period \in TIME_PERIODS :
    /\ appOp' = "getComparisonToPrevious"
    /\ appArg' = [NoArg EXCEPT !.period = period, !.at = now]
    /\ appRet' = [Nothing EXCEPT
                    !.kind = "comparison",
                    !.comparison =
                       getComparisonToPrevious(salesData, period, now)]
    /\ UNCHANGED <<streamVars, inventoryVars, storeVars, analyticsVars>>

\* the sales of data less than `span' ticks old at time t; a timestamp
\* that is not a number makes the difference NaN
Within(data, span, t) ==
  SelectSeq(data, LAMBDA sale :
    sale.timestamp[1] = "number" /\ t - sale.timestamp[2] < span)

\* getRealTimeStats() at time t
getRealTimeStats(data, t) ==
  LET last24Hours == Within(data, TICKS_PER_DAY, t)
      lastHour == Within(data, TICKS_PER_HOUR, t)
  IN [totalSales |-> Len(data),
      salesLast24Hours |-> Len(last24Hours),
      salesLastHour |-> Len(lastHour),
      totalRevenue |-> SumPrices(data),
      revenueLast24Hours |-> SumPrices(last24Hours),
      lastSaleTime |-> IF Len(data) > 0 THEN data[1].timestamp ELSE JSNULL,
      isActive |-> Len(lastHour) > 0]

\* analytics.getRealTimeStats()
GetRealTimeStats ==
  /\ appOp' = "getRealTimeStats"
  /\ appArg' = NoArg
  /\ appRet' = [Nothing EXCEPT
                  !.kind = "stats",
                  !.value = getRealTimeStats(salesData, now).isActive,
                  !.info = getRealTimeStats(salesData, now).lastSaleTime]
  /\ UNCHANGED <<streamVars, inventoryVars, storeVars, analyticsVars>>

\* analytics.loadData() up to its await of storage.getSalesData(); one
\* reload at a time
LoadData ==
  /\ Len(pending) < MaxPending
  /\ \A k \in DOMAIN pending : pending[k].task # "loadData"
  /\ pending' = Append(pending,
        IF db THEN Call("loadData", "idb", NoSale, <<>>, 0, <<>>)
        ELSE Call("loadData", "micro", NoSale, <<>>, 0, getSalesDataSync))
  /\ appOp' = "loadData:await"
  /\ appArg' = NoArg
  /\ appRet' = Nothing
  /\ UNCHANGED <<streamVars, inventoryVars, now, db, idbSales, lsSales, saved,
                 analyticsVars>>

\* getAll completes (its error sends getSalesData to localStorage), then
\* loadData goes on: it replaces the working set and clears the expired
\* cache entries
ResumeLoadData ==
  \E k \in Resumable, ok \in BOOLEAN :
    LET c == pending[k]
        result == IF c.via = "micro" THEN c.result
                  ELSE IF ok THEN idbSales ELSE lsGet
    IN /\ c.task = "loadData"
       /\ c.via = "micro" => ok
       /\ pending' = Without(k)
       /\ salesData' = result
       /\ cache' = clearExpiredCache
       /\ reloaded' = TRUE
       /\ appOp' = "loadData:done"
       /\ appArg' = NoArg
       /\ appRet' = List(result)
       /\ UNCHANGED <<streamVars, inventoryVars, now, db, idbSales, lsSales, saved, nextSeq,
                      recomputed, doneUpTo, revenueIn>>

\* storage.saveSalesData(salesArray) up to its first await; without
\* IndexedDB it writes localStorage and returns
SaveSalesData ==
  \E arr \in SaveInputs :
    /\ Len(pending) < MaxPending
    /\ saved' =
         IF \E k \in DOMAIN pending : pending[k].task = "save"
           THEN NoSave
           ELSE [old |-> IF db THEN {idbSales, lsGet} ELSE {lsGet},
                 new |-> [i \in DOMAIN arr |-> saleData(arr[i], now)],
                 state |-> IF db THEN "running" ELSE "complete"]
    /\ appArg' = [NoArg EXCEPT !.arr = arr]
    /\ IF db
         THEN /\ pending' = Append(pending,
                     Call("save", "idb", NoSale, arr, 0, <<>>))
              /\ appOp' = "saveSalesData:await"
              /\ appRet' = Nothing
              /\ UNCHANGED lsSales
         ELSE /\ lsSales' = arr
              /\ appOp' = "saveSalesData:done"
              /\ appRet' = Bool(TRUE)
              /\ UNCHANGED pending
    /\ UNCHANGED <<streamVars, inventoryVars, now, db, idbSales, analyticsVars>>

\* the request saveSalesData awaits completes: the clear of the store
\* (i = 0) or the add of salesArray[i]; saveSalesData then makes its next
\* request or returns.  The error of a request sends it to the catch
\* clause, which writes the whole array to localStorage.
ResumeSave ==
  \E k \in Resumable, ok \in BOOLEAN :
    LET c == pending[k]
        last == c.i = Len(c.arr)
    IN /\ c.task = "save"
       /\ idbSales' = IF ~ok THEN idbSales
                       ELSE IF c.i = 0 THEN <<>>
                       ELSE Append(idbSales, saleData(c.arr[c.i], now))
       /\ lsSales' = IF ok THEN lsSales ELSE c.arr
       /\ pending' = IF ok /\ ~last
                       THEN Append(Without(k), [c EXCEPT !.i = c.i + 1])
                       ELSE Without(k)
       /\ appOp' = IF ok /\ ~last THEN "saveSalesData:await"
                    ELSE "saveSalesData:done"
       /\ appArg' = [NoArg EXCEPT !.arr = c.arr]
       /\ appRet' = IF ok /\ ~last THEN Nothing ELSE Bool(TRUE)
       /\ saved' = IF saved.state # "running" \/ (ok /\ ~last) THEN saved
                    ELSE [saved EXCEPT !.state = IF ok THEN "complete"
                                                 ELSE "failed"]
       /\ UNCHANGED <<streamVars, inventoryVars, now, db, analyticsVars>>

\* storage.getSalesData() up to its await; without IndexedDB it returns
\* what localStorage holds
GetSalesData ==
  /\ IF db
       THEN /\ Len(pending) < MaxPending
            /\ pending' = Append(pending,
                   Call("read", "idb", NoSale, <<>>, 0, <<>>))
            /\ appOp' = "getSalesData:await"
            /\ appRet' = Nothing
       ELSE /\ appOp' = "getSalesData:done"
            /\ appRet' = List(getSalesDataSync)
            /\ UNCHANGED pending
  /\ appArg' = NoArg
  /\ UNCHANGED <<streamVars, inventoryVars, now, db, idbSales, lsSales, saved,
                 analyticsVars>>

\* getAll completes and getSalesData returns its result; on its error
\* getSalesData returns what localStorage holds
ResumeRead ==
  \E k \in Resumable, ok \in BOOLEAN :
    LET c == pending[k]
    IN /\ c.task = "read"
       /\ pending' = Without(k)
       /\ appOp' = "getSalesData:done"
       /\ appArg' = NoArg
       /\ appRet' = List(IF ok THEN idbSales ELSE lsGet)
       /\ UNCHANGED <<streamVars, inventoryVars, now, db, idbSales, lsSales, saved,
                      analyticsVars>>

\* the events the store holds, each put there by a write that reported
\* success
Acknowledged == idbSales \o lsGet

\* a saveSalesData has returned and none has begun since
SaveReturned ==
  /\ saved.state \in {"complete", "failed"}
  /\ \A k \in DOMAIN pending : pending[k].task # "save"

\* storage.getSalesWithFilter(options) up to its await; without IndexedDB
\* it returns what localStorage holds, limited
GetSalesWithFilter ==
  \E limit \in QueryLimits :
    /\ IF db
         THEN /\ Len(pending) < MaxPending
              /\ pending' = Append(pending,
                     [Call("query", "idb", NoSale, <<>>, limit, <<>>)
                        EXCEPT !.afterSave = SaveReturned,
                               !.acked = Acknowledged])
              /\ appOp' = "getSalesWithFilter:await"
              /\ appRet' = Nothing
         ELSE /\ appOp' = "getSalesWithFilter:done"
              /\ appRet' = List(applyOptions(lsGet, limit))
              /\ UNCHANGED pending
    /\ appArg' = [NoArg EXCEPT !.limit = limit, !.afterSave = SaveReturned,
                               !.acked = Acknowledged]
    /\ UNCHANGED <<streamVars, inventoryVars, now, db, idbSales, lsSales,
                   saved, analyticsVars>>

\* getAll completes and queryIndexedDB resolves with its result, limited;
\* on its error getSalesWithFilter goes on to the localStorage branch
ResumeQuery ==
  \E k \in Resumable, ok \in BOOLEAN :
    LET c == pending[k]
    IN /\ c.task = "query"
       /\ pending' = Without(k)
       /\ appOp' = "getSalesWithFilter:done"
       /\ appArg' = [NoArg EXCEPT !.limit = c.i, !.afterSave = c.afterSave,
                                  !.acked = c.acked]
       /\ appRet' = List(applyOptions(IF ok THEN idbSales ELSE lsGet, c.i))
       /\ UNCHANGED <<streamVars, inventoryVars, now, db, idbSales, lsSales,
                      saved, analyticsVars>>

\* storage.addSale(sale), called by itself, up to its await; without
\* IndexedDB it writes localStorage and returns
StorageAddSale ==
  \E sale \in StoredSales, lsOk \in BOOLEAN :
    LET record == saleData(sale, now)
        fallback == addSaleFallback(record, lsOk)
    IN /\ appArg' = [NoArg EXCEPT !.record = record]
       /\ IF db
            THEN /\ lsOk
                 /\ Len(pending) < MaxPending
                 /\ Len(Acknowledged) + Len(pending) < MaxSales
                 /\ pending' = Append(pending,
                        Call("append", "idb", record, <<>>, 0, <<>>))
                 /\ appOp' = "storage.addSale:await"
                 /\ appRet' = Nothing
                 /\ UNCHANGED lsSales
            ELSE /\ Len(Acknowledged) + Len(pending) < MaxSales
                 /\ lsSales' = fallback.ls
                 /\ appOp' = "storage.addSale:done"
                 /\ appRet' = fallback.ret
                 /\ UNCHANGED pending
       /\ UNCHANGED <<streamVars, inventoryVars, now, db, idbSales, saved,
                      analyticsVars>>

\* the add request of storage.addSale completes and it returns true; the
\* error of the request sends it to its localStorage branch
ResumeAppend ==
  \E k \in Resumable, ok \in BOOLEAN, lsOk \in BOOLEAN :
    LET c == pending[k]
        fallback == addSaleFallback(c.sale, lsOk)
    IN /\ c.task = "append"
       /\ ok => lsOk
       /\ pending' = Without(k)
       /\ idbSales' = IF ok THEN Append(idbSales, c.sale) ELSE idbSales
       /\ lsSales' = IF ok THEN lsSales ELSE fallback.ls
       /\ appOp' = "storage.addSale:done"
       /\ appArg' = [NoArg EXCEPT !.record = c.sale]
       /\ appRet' = IF ok THEN Bool(TRUE) ELSE fallback.ret
       /\ UNCHANGED <<streamVars, inventoryVars, now, db, saved,
                      analyticsVars>>

\* storage.importData(data) for a file whose "sales" is an object and not
\* an array, up to the await of saveSalesData; without IndexedDB
\* saveSalesData hands the value to setItem and importData returns true
ImportMalformed ==
  \E lsOk \in BOOLEAN :
    /\ appArg' = [NoArg EXCEPT !.arr = NotAnArray]
    /\ IF db
         THEN /\ lsOk
              /\ Len(pending) < MaxPending
              /\ pending' = Append(pending,
                     Call("import", "idb", NoSale, NotAnArray, 0, <<>>))
              /\ appOp' = "importData:await"
              /\ appRet' = Nothing
              /\ UNCHANGED lsSales
         ELSE /\ lsSales' = setItem(NotAnArray, lsOk)
              /\ appOp' = "importData:done"
              /\ appRet' = Bool(TRUE)
              /\ UNCHANGED pending
    /\ UNCHANGED <<streamVars, inventoryVars, now, db, idbSales, saved,
                   analyticsVars>>

\* the clear request of that saveSalesData completes: for...of throws for
\* a value that is not iterable, as the error of the request does, and
\* the catch clause hands the value to setItem; importData returns true
ResumeImport ==
  \E k \in Resumable, ok \in BOOLEAN, lsOk \in BOOLEAN :
    LET c == pending[k]
    IN /\ c.task = "import"
       /\ pending' = Without(k)
       /\ idbSales' = IF ok THEN <<>> ELSE idbSales
       /\ lsSales' = setItem(c.arr, lsOk)
       /\ appOp' = "importData:done"
       /\ appArg' = [NoArg EXCEPT !.arr = c.arr]
       /\ appRet' = Bool(TRUE)
       /\ UNCHANGED <<streamVars, inventoryVars, now, db, saved,
                      analyticsVars>>

\* The analytics engine with the store under it, within one tick of the
\* clock.
NextAnalytics ==
  \/ IdbOpenSuccess
  \/ AddSale
  \/ ResumeAddSale
  \/ GetAnalytics
  \/ LoadData
  \/ ResumeLoadData

SpecAnalytics == InitIdle /\ [][NextAnalytics]_vars

\* The analytics engine and its cache as the clock advances, in a browser
\* without IndexedDB.
NextCache ==
  \/ Tick(HALF_DAY)
  \/ AddSale
  \/ ResumeAddSale
  \/ GetAnalytics

SpecCache == InitIdle /\ [][NextCache]_vars

\* The path of a sale from the stream into the working set and the store.
NextPipeline ==
  \/ Tick(1)
  \/ IdbOpenSuccess
  \/ HandleSale
  \/ ResumeAddSale
  \/ GetAnalytics

SpecPipeline == InitIdle /\ [][NextPipeline]_vars

\* The working set reloaded from the store after an import (importData
\* awaits storage.importData, which awaits saveSalesData, then calls
\* analytics.loadData), with the snapshots read in between, in a browser
\* without IndexedDB.
NextReload ==
  \/ SaveSalesData
  \/ LoadData
  \/ ResumeLoadData
  \/ GetAnalytics

SpecReload == InitIdle /\ [][NextReload]_vars

\* The working set under sales and reloads, and the statistics read from
\* it, with and without IndexedDB.
NextStats ==
  \/ Tick(1)
  \/ IdbOpenSuccess
  \/ AddSale
  \/ ResumeAddSale
  \/ LoadData
  \/ ResumeLoadData
  \/ GetRealTimeStats

SpecStats == InitIdle /\ [][NextStats]_vars

\* The snapshots of a working set reloaded from the store after an import
\* (importData awaits storage.importData, which awaits saveSalesData, then
\* calls analytics.loadData), in a browser without IndexedDB.
NextBuckets ==
  \/ SaveSalesData
  \/ LoadData
  \/ ResumeLoadData
  \/ GetAnalyticsFresh

SpecBuckets == InitIdle /\ [][NextBuckets]_vars

\* The comparisons of a working set that reaches back a month, through a
\* day, in a browser without IndexedDB.
NextCompare ==
  \/ Tick(HALF_DAY)
  \/ AddDatedSale
  \/ ResumeAddSale
  \/ GetComparisonToPrevious

SpecCompare == InitIdle /\ [][NextCompare]_vars

\* The snapshots of a working set that reaches back a month, through a
\* day, in a browser without IndexedDB.
NextWindows ==
  \/ Tick(HALF_DAY)
  \/ AddDatedSale
  \/ ResumeAddSale
  \/ GetAnalyticsFresh

SpecWindows == InitIdle /\ [][NextWindows]_vars

\* The lookup of product names in the product table.
NextLookup ==
  \/ GetProductInfo

SpecLookup == InitIdle /\ [][NextLookup]_vars

\* Single writes to the event store and the queries that follow them.
NextAppend ==
  \/ Tick(1)
  \/ IdbOpenSuccess
  \/ StorageAddSale
  \/ ResumeAppend
  \/ GetSalesWithFilter
  \/ ResumeQuery

SpecAppend == InitIdle /\ [][NextAppend]_vars

\* Single writes to an event store that has taken the import of a
\* malformed file, and the reads that follow them.
NextImport ==
  \/ IdbOpenSuccess
  \/ ImportMalformed
  \/ ResumeImport
  \/ StorageAddSale
  \/ ResumeAppend
  \/ GetSalesData
  \/ ResumeRead

SpecImport == InitIdle /\ [][NextImport]_vars

\* storage.addSale(sale) in a browser without IndexedDB, for the sales of
\* a long session one after another: each is numbered after the newest
\* one localStorage holds
AppendToFallback ==
  \E lsOk \in BOOLEAN :
    LET n == IF lsGet = <<>> THEN 1 ELSE lsGet[Len(lsGet)].seq + 1
        record == saleData(Sale(Cola, 1500, UNDEFINED, n), now)
        fallback == addSaleFallback(record, lsOk)
    IN /\ ~db
       /\ n <= MaxAppended
       /\ lsSales' = fallback.ls
       /\ appOp' = "storage.addSale:done"
       /\ appArg' = [NoArg EXCEPT !.record = record]
       /\ appRet' = fallback.ret
       /\ UNCHANGED <<streamVars, inventoryVars, now, db, idbSales, saved,
                      analyticsVars, pending>>

\* The localStorage backend over a session long enough to overflow it.
NextTrim ==
  \/ AppendToFallback

SpecTrim == InitIdle /\ [][NextTrim]_vars

\* The event store on its own.
NextStore ==
  \/ IdbOpenSuccess
  \/ SaveSalesData
  \/ ResumeSave
  \/ GetSalesData
  \/ ResumeRead
  \/ GetSalesWithFilter
  \/ ResumeQuery

SpecStore == InitIdle /\ [][NextStore]_vars

\* ---- the inventory manager in action
CommitInventory(I, op, arg) ==
  /\ inventory' = I.inventory
  /\ stockAlerts' = I.stockAlerts
  /\ lsInventory' = I.lsInventory
  /\ nextProductId' = I.nextProductId
  /\ alertLog' = I.alertLog
  /\ alerts' = I.alerts
  /\ invRet' = I.ret
  /\ invOp' = op
  /\ invArg' = arg
  /\ UNCHANGED <<streamVars, storeVars, analyticsVars, callVars>>

\* inventory.init() of initializeComponents: loadInventoryData, then
\* setupEventListeners once more
InventoryInit ==
  /\ listeners < 1 + InitCalls
  /\ listeners' = listeners + 1
  /\ CommitInventory([InvState EXCEPT !.inventory = MapOf(lsInventory),
                                      !.ret = TRUE],
                     "init", NoInvArg)

\* inventory.addProduct(productData) and its continuation
AddProduct ==
  \E data \in ProductInputs :
    /\ nextProductId <= MaxProductIds
    /\ CommitInventory(settle(addProduct(InvState, data), now),
                       "addProduct", [NoInvArg EXCEPT !.data = data])
    /\ UNCHANGED listeners

\* the 'Edit Stock' handler of showEditProductModal(productId)
EditStock ==
  \E i \in DOMAIN inventory, text \in PromptInputs :
    /\ CommitInventory(
         IF promptAccepted(text)
           THEN settle(updateStock(InvState, inventory[i].id,
                                   parseInt(text[2])), now)
           ELSE InvState,
         "editStock",
         [NoInvArg EXCEPT !.id = inventory[i].id, !.text = text])
    /\ UNCHANGED listeners

\* the 'Edit Price' handler of showEditProductModal(productId)
EditPrice ==
  \E i \in DOMAIN inventory, text \in PromptInputs :
    /\ CommitInventory(
         IF promptAccepted(text)
           THEN saveInventoryData(
                  [InvState EXCEPT !.inventory[i].price =
                                     parseFloat(text[2]),
                                   !.ret = TRUE])
           ELSE InvState,
         "editPrice",
         [NoInvArg EXCEPT !.id = inventory[i].id, !.text = text])
    /\ UNCHANGED listeners

\* the 'Remove Product' handler, confirmed
RemoveProduct ==
  \E i \in DOMAIN inventory :
    /\ CommitInventory(removeProduct(InvState, inventory[i].id),
                       "removeProduct",
                       [NoInvArg EXCEPT !.id = inventory[i].id])
    /\ UNCHANGED listeners

\* inventory.importInventory({inventory: items})
ImportInventory ==
  \E items \in ImportSets :
    /\ CommitInventory(importInventory(InvState, items), "importInventory",
                       [NoInvArg EXCEPT !.items = items])
    /\ UNCHANGED listeners

\* document.dispatchEvent(new CustomEvent('new-sale', ...)) of handleSale,
\* with the continuations of the listeners
DispatchNewSale ==
  \E sale \in InventorySales :
    /\ \A i \in DOMAIN inventory : inventory[i].totalSales < MaxTotalSales
    \* generateId has a fresh id to give when the sale creates a product
    /\ \/ nextProductId <= MaxProductIds
       \/ ~Truthy(sale.productName)
       \/ findProductByName(inventory, sale.productName[2]) # 0
    /\ CommitInventory(settle(dispatchNewSale(InvState, sale, listeners),
                              now),
                       "new-sale", [NoInvArg EXCEPT !.sale = sale])
    /\ UNCHANGED listeners

\* the 'new-sale' event of a sale of a product that may not be tracked
\* yet, with the continuations of the listeners
DispatchTrackedSale ==
  \E sale \in TrackedSales :
    /\ \A i \in DOMAIN inventory : inventory[i].totalSales < MaxTotalSales
    /\ \/ nextProductId <= MaxProductIds
       \/ findProductByName(inventory, sale.productName[2]) # 0
    /\ CommitInventory(settle(dispatchNewSale(InvState, sale, listeners),
                              now),
                       "new-sale", [NoInvArg EXCEPT !.sale = sale])
    /\ UNCHANGED listeners

\* ---- handleSale after its await of analytics.addSale
\* The suspended handleSale calls that can resume at the await `task':
\* the oldest call that awaits a microtask when there is one, else the
\* oldest of those that wait at this await (IndexedDB completes its
\* requests, and the audio element settles its play promises, in the
\* order they were made).
ResumableAt(task) ==
  LET micro == {k \in DOMAIN pending : pending[k].via = "micro"}
      here == {k \in DOMAIN pending : pending[k].task = task}
      first == IF micro # {} THEN micro ELSE here
  IN {k \in first \cap here : \A m \in first : k <= m}

\* what playSound('PURCHASE') of notifyPurchase waits for: the promise of
\* audio.play() when the stored settings enable sounds, nothing otherwise
\* (enableNotifications is off, as in DEFAULT_SETTINGS)
playSound(sounds) == IF sounds THEN "play" ELSE "micro"

\* the detail of the 'new-sale' event of a sale
detailOf(sale) == Object(Str(sale.productName), Num(sale.price),
                         sale.timestamp)

\* the add request of storage.addSale completes (its error sends it to
\* localStorage), analytics.addSale clears the cache and returns, and
\* handleSale goes on: addToLiveFeed, showCelebration, and notifyPurchase
\* up to its await of audio.play()
SaleAdded ==
  \E k \in ResumableAt("addSale"), ok \in BOOLEAN :
    LET c == pending[k]
    IN /\ c.via = "micro" => ok
       /\ pending' = Append(Without(k),
                            [c EXCEPT !.task = "notifyPurchase",
                                      !.via = playSound(enableSounds)])
       /\ idbSales' = IF c.via = "idb" /\ ok THEN Append(idbSales, c.sale)
                       ELSE idbSales
       /\ lsSales' = IF c.via = "idb" /\ ~ok THEN lsAddSale(c.sale)
                      ELSE lsSales
       /\ cache' = EmptyCache
       /\ doneUpTo' = IF c.sale.seq > doneUpTo THEN c.sale.seq ELSE doneUpTo
       /\ appOp' = "handleSale:notify"
       /\ appArg' = [NoArg EXCEPT !.record = c.sale]
       /\ appRet' = Nothing
       /\ UNCHANGED <<streamVars, inventoryVars, now, db, saved, salesData,
                      nextSeq, recomputed, revenueIn, reloaded>>

\* audio.play() settles (playSound catches its rejection) or was not
\* called, and notifyPurchase returns; handleSale goes on:
\* updateStatistics reads getAnalytics('all'), and updateCharts reads it
\* again and waits for the charts
SaleNotified ==
  \E k \in ResumableAt("notifyPurchase"), ok \in BOOLEAN :
    LET c == pending[k]
        hit == cacheHit(ALL, TRUE)
        analytics ==
          calculateAnalytics(filterByTimePeriod(salesData, ALL, now), ALL)
    IN /\ c.via = "micro" => ok
       /\ pending' = Append(Without(k), [c EXCEPT !.task = "updateCharts",
                                                  !.via = "micro"])
       /\ cache' = IF hit THEN cache
                    ELSE [cache EXCEPT ![ALL] =
                            [data |-> analytics, timestamp |-> now]]
       /\ recomputed' = ~hit
       /\ appOp' = "handleSale:charts"
       /\ appArg' = [NoArg EXCEPT !.record = c.sale]
       /\ appRet' = Nothing
       /\ UNCHANGED <<streamVars, inventoryVars, now, db, idbSales, lsSales,
                      saved, salesData, nextSeq, doneUpTo, revenueIn,
                      reloaded>>

\* updateCharts returns and handleSale dispatches 'new-sale': the
\* listeners of the inventory manager run, and their continuations
SaleDispatched ==
  \E k \in ResumableAt("updateCharts") :
    LET c == pending[k]
        I == settle(dispatchNewSale(InvState, detailOf(c.sale), listeners),
                    now)
    IN /\ pending' = Without(k)
       /\ appOp' = "handleSale:done"
       /\ appArg' = [NoArg EXCEPT !.record = c.sale]
       /\ appRet' = Nothing
       /\ inventory' = I.inventory
       /\ stockAlerts' = I.stockAlerts
       /\ lsInventory' = I.lsInventory
       /\ nextProductId' = I.nextProductId
       /\ alertLog' = I.alertLog
       /\ alerts' = I.alerts
       /\ invRet' = I.ret
       /\ invOp' = "new-sale"
       /\ invArg' = [NoInvArg EXCEPT !.sale = detailOf(c.sale)]
       /\ UNCHANGED <<streamVars, now, db, idbSales, lsSales, saved,
                      analyticsVars, listeners>>

\* saveSettings() of the settings form with the stream URL left as it
\* is: setItem stores the settings unless the write fails
SaveSettings ==
  \E sounds \in BOOLEAN, lsOk \in BOOLEAN :
    /\ enableSounds' = IF lsOk THEN sounds ELSE enableSounds
    /\ appOp' = "saveSettings"
    /\ appArg' = NoArg
    /\ appRet' = Nothing
    /\ UNCHANGED <<mgrVars, opVars, histVars, backoffVars, storeVars,
                   analyticsVars, inventoryVars>>

\* no continuation waits in the microtask queue: the next task can begin
NoMicrotask == \A k \in DOMAIN pending : pending[k].via # "micro"

\* The sales of the stream from the message to the 'new-sale' event, and
\* the settings form.  A task begins when the microtask queue is empty.
NextSale ==
  \/ NoMicrotask /\ Tick(1)
  \/ NoMicrotask /\ SaveSettings
  \/ NoMicrotask /\ IdbOpenSuccess
  \/ NoMicrotask /\ HandleSale
  \/ SaleAdded
  \/ SaleNotified
  \/ SaleDispatched

SpecSale == InitIdle /\ [][NextSale]_vars

\* Sales of products the inventory does not track yet.
NextAutoTrack ==
  \/ Tick(1)
  \/ InventoryInit
  \/ DispatchTrackedSale
  \/ RemoveProduct

SpecAutoTrack == InitIdle /\ [][NextAutoTrack]_vars

NextInventory ==
  \/ Tick(1)
  \/ InventoryInit
  \/ AddProduct
  \/ EditStock
  \/ EditPrice
  \/ RemoveProduct
  \/ ImportInventory
  \/ DispatchNewSale

SpecInventory == InitIdle /\ [][NextInventory]_vars

\* the operations that check the stock level, and the clock
NextAlerts ==
  \/ Tick(1)
  \/ InventoryInit
  \/ AddProduct
  \/ EditStock
  \/ RemoveProduct
  \/ DispatchNewSale

SpecAlerts == InitIdle /\ [][NextAlerts]_vars

\* ------------------------------------------------------------- claims
HasEvent(e) == \E k \in DOMAIN events : events[k] = e
GaveUp == <<"maxReconnectAttemptsReached">>

\* C1: once the attempt counter is at the maximum, the gave-up signal is
\* dispatched at most once as long as no connection succeeds and the caller
\* does not call connect() or reset().
C1_GaveUpOnce == gaveUpCount <= 1

\* C2: right after disconnect() has returned no timer of the client is
\* pending: no heartbeat interval, no reconnect timer, no connection
\* timeout, no delayed connect.
C2_NoTimerAfterDisconnect ==
  lastOp = "disconnect" =>
    /\ heartbeatTimers = 0
    /\ reconnectTimers = 0
    /\ connectionTimeout # "armed"
    /\ orphanTimeouts = 0
    /\ delayedConnects = 0

\* C3: after disconnect(), and until the caller calls connect(), reset()
\* or updateUrl(), the state stays 'disconnected', this.ws stays null and
\* no handler constructs a WebSocket.
C3_DisconnectSuppressesReconnect ==
  sinceDisconnect =>
    /\ connectionState = DISCONNECTED
    /\ wsState = NULL
    /\ newSockets = 0

\* C4: after the gave-up signal, and until the caller calls connect() or
\* reset(), the state stays 'disconnected' and no handler constructs a
\* WebSocket.
C4_TerminalAfterGaveUp ==
  terminal =>
    /\ connectionState = DISCONNECTED
    /\ newSockets = 0

\* C5: reconnectAttempts stays within 0..maxReconnectAttempts, and when
\* every attempt fails and disconnect() is never called, a client that has
\* left 'disconnected' comes back to it with the gave-up signal dispatched.
C5_GivesUp ==
  /\ [](reconnectAttempts \in 0..MAX_RECONNECT_ATTEMPTS)
  /\ (connectionState # DISCONNECTED)
       ~> (connectionState = DISCONNECTED /\ HasEvent(GaveUp))

C5_Witness ==
  /\ reconnectAttempts = MAX_RECONNECT_ATTEMPTS
  /\ connectionState = DISCONNECTED
  /\ HasEvent(GaveUp)

\* C6: every change of connectionState is one of the transitions of the
\* state machine, and a change to 'disconnected' comes from a manual
\* disconnect or from reconnect exhaustion.
AllowedTransitions ==
  {<<DISCONNECTED, CONNECTING_STATE>>, <<CONNECTING_STATE, CONNECTED>>,
   <<CONNECTED, RECONNECTING>>, <<CONNECTING_STATE, RECONNECTING>>,
   <<RECONNECTING, CONNECTING_STATE>>}
    \cup {<<c, DISCONNECTED>> : c \in CONNECTION_STATES}

C6_StateMachine ==
  \A k \in DOMAIN events :
    events[k][1] = "stateChange" =>
      /\ <<events[k][2], events[k][3]>> \in AllowedTransitions
      /\ events[k][3] = DISCONNECTED =>
            \/ lastOp \in {"disconnect", "destroy", "reset", "updateUrl"}
            \/ HasEvent(GaveUp)

\* C7: connect() while this.ws is connecting or open changes nothing: no
\* field of the manager, no socket, no timer, and it dispatches no event.
C7_ConnectNoOp ==
  [][(wsState \in {WS_CONNECTING, WS_OPEN} /\ lastOp' = "connect") =>
       /\ UNCHANGED mgrVars
       /\ events' = <<>>
       /\ newSockets' = 0]_vars

C7_Witness ==
  /\ lastOp = "connect"
  /\ wsState \in {WS_CONNECTING, WS_OPEN}
  /\ events = <<>>
  /\ newSockets = 0

\* the queued messages, in order, that can be serialised, serialised
RECURSIVE Wire(_)
Wire(q) ==
  IF q = <<>> THEN <<>>
  ELSE (IF Serializable(Head(q)) THEN <<Serialize(Head(q))>> ELSE <<>>)
         \o Wire(Tail(q))

\* what C8 says of every step but the flush: the queue only grows at its
\* tail, by send(), and is emptied by reset() and destroy() only
QueueIsFifo ==
  \/ messageQueue' = messageQueue
  \/ /\ lastOp' = "send"
     /\ \E d \in Messages : messageQueue' = Append(messageQueue, d)
  \/ /\ lastOp' \in {"onOpen", "reset", "destroy"}
     /\ messageQueue' = <<>>

OpenCompletes ==
  /\ messageQueue' = <<>>
  /\ reconnectAttempts' = 0
  /\ connectionTimeout' = "null"
  /\ connectionState' = CONNECTED
  /\ hung' = FALSE

\* C8 as stated: the open handler transmits every queued message, each
\* once and in the order of the send() calls, and completes with the queue
\* empty, the counter 0, the timeout cancelled and the state 'connected'.
C8_FlushAll ==
  [][lastOp' = "onOpen" =>
       /\ Len(transmitted') = Len(messageQueue)
       /\ \A k \in DOMAIN messageQueue :
             transmitted'[k] = Serialize(messageQueue[k])
       /\ OpenCompletes]_vars

\* C8 amended: the open handler transmits, in the order of the send()
\* calls and each once, the queued messages that can be serialised (one
\* whose JSON encoding throws is removed untransmitted), and completes as
\* stated; between flushes the queue holds the messages of the send() calls
\* made since the last reset() or destroy(), in order.
C8_FlushSerializable ==
  [][/\ QueueIsFifo
     /\ lastOp' = "onOpen" =>
          /\ transmitted' = Wire(messageQueue)
          /\ OpenCompletes]_vars

C8_Witness ==
  /\ lastOp = "onOpen"
  /\ transmitted = <<"str", "json:obj">>
  /\ messageQueue = <<>>

\* C9 as stated: send with an open transport transmits, returns true and
\* leaves the queue alone; send with no open transport transmits nothing,
\* appends to the queue and returns false.
C9_SendOrQueue ==
  [][lastOp' = "send" =>
       \E d \in Messages :
         IF wsState = WS_OPEN
           THEN /\ transmitted' = <<Serialize(d)>>
                /\ ret' = "true"
                /\ messageQueue' = messageQueue
           ELSE /\ transmitted' = <<>>
                /\ ret' = "false"
                /\ messageQueue' = Append(messageQueue, d)]_vars

\* C9 amended: with an open transport send(m) transmits the serialised m
\* and returns true, unless serialising m throws, and then it transmits
\* nothing and returns false; either way the queue is unchanged.  With no
\* open transport it transmits nothing, appends m and returns false.
C9_SendOrQueueSerializable ==
  [][lastOp' = "send" =>
       \E d \in Messages :
         IF wsState = WS_OPEN
           THEN /\ messageQueue' = messageQueue
                /\ IF Serializable(d)
                     THEN transmitted' = <<Serialize(d)>> /\ ret' = "true"
                     ELSE transmitted' = <<>> /\ ret' = "false"
           ELSE /\ transmitted' = <<>>
                /\ ret' = "false"
                /\ messageQueue' = Append(messageQueue, d)]_vars

C9_Witness ==
  /\ lastOp = "send"
  /\ wsState = WS_OPEN
  /\ ret = "true"
  /\ transmitted = <<"json:obj">>
  /\ messageQueue = <<>>

\* C10: an inbound object that carries a product name and whose name is
\* outside the safe character set or length, whose price is negative or
\* not numeric, or whose timestamp is invalid, produces no 'message'
\* event; an object that carries a product name and has none of these
\* defects produces exactly one.
NumericText(chars) ==
  /\ chars # <<>>
  /\ \A i \in 1..Len(chars) : IsDigit(chars[i]) \/ chars[i] \in {"$", "."}
UnsafeName(v) == v[1] # "string" \/ ~testProductName(v[2])
NegativePrice(v) ==
  \/ v[1] = "number" /\ v[2] < 0
  \/ v[1] = "string" /\ v[2] # <<>> /\ v[2][1] = "-"
NonNumericPrice(v) ==
  /\ v # UNDEFINED
  /\ v[1] # "number"
  /\ ~(v[1] = "string" /\ NumericText(v[2]))
FailsPurchaseEvent(p) ==
  \/ UnsafeName(p.productName)
  \/ NegativePrice(p.price)
  \/ NonNumericPrice(p.price)
  \/ p.timestamp # UNDEFINED /\ InvalidDate(p.timestamp)
MessageEvents ==
  Cardinality({k \in DOMAIN events : events[k] = <<"message">>})

C10_InvalidDropped ==
  (lastOp = "onMessage" /\ inbound.type = "object"
     /\ Truthy(inbound.productName)) =>
    MessageEvents = IF FailsPurchaseEvent(inbound) THEN 0 ELSE 1

\* C11: an inbound payload that is not a JSON object, or that is an object
\* failing the Purchase Event schema (an empty or missing product name
\* included), produces no 'message' event.
C11_NonSaleDropped ==
  (lastOp = "onMessage"
     /\ (inbound.type # "object" \/ FailsPurchaseEvent(inbound))) =>
    MessageEvents = 0

\* the step is a call or continuation named op (the clock does not move
\* during one)
Called(op) == appOp' = op /\ now' = now
AddSalePending == \E k \in DOMAIN pending : pending[k].task = "addSale"

\* C12: when every accepted sale has been added, getAnalytics('all')
\* reports as totalSales the number of accepted sales and as totalRevenue
\* the sum of their parsed prices, whatever their timestamps.
C12_AllCountsEverySale ==
  (appOp = "getAnalytics" /\ appArg.period = ALL /\ ~reloaded
     /\ ~AddSalePending) =>
    /\ appRet.snapshot.totalSales = nextSeq - 1
    /\ appRet.snapshot.totalRevenue = revenueIn

\* C13: when addSale returns true the cache holds no entry and the working
\* set contains the new sale; no getAnalytics returns a snapshot computed
\* before a sale whose addSale has returned true was added.
C13_FreshAfterAdd ==
  /\ appOp = "addSale:done" =>
       /\ cache = EmptyCache
       /\ \E i \in DOMAIN salesData : salesData[i].seq = appArg.record.seq
  /\ appOp = "getAnalytics" => appRet.snapshot.upTo >= doneUpTo

\* C14 as stated: a getAnalytics(period) with caching that follows another
\* one, with nothing but time between them and less than the TTL after
\* it, returns the same snapshot without recomputing; an entry whose age
\* has reached the TTL is never returned.
C14_CachedWithinTtlOfCall ==
  [][(Called("getAnalytics") /\ appArg'.useCache) =>
       /\ (appOp = "getAnalytics" /\ appArg.useCache
             /\ appArg.period = appArg'.period
             /\ now - appArg.at < CACHE_EXPIRY) =>
            (~recomputed' /\ appRet' = appRet)
       /\ ~recomputed' =>
            now - cache[appArg'.period].timestamp < CACHE_EXPIRY]_vars

\* C14 amended: the second call returns the same snapshot without
\* recomputing when it is made less than the TTL after that snapshot was
\* computed; an entry whose age has reached the TTL is never returned.
C14_CachedWithinTtlOfComputation ==
  [][(Called("getAnalytics") /\ appArg'.useCache) =>
       /\ (appOp = "getAnalytics" /\ appArg.useCache
             /\ appArg.period = appArg'.period
             /\ now - cache[appArg.period].timestamp < CACHE_EXPIRY) =>
            (~recomputed' /\ appRet' = appRet /\ cache' = cache)
       /\ ~recomputed' =>
            now - cache[appArg'.period].timestamp < CACHE_EXPIRY]_vars

C14_Witness ==
  /\ appOp = "getAnalytics"
  /\ appArg.useCache
  /\ ~recomputed
  /\ appRet.snapshot.totalSales > 0
  /\ now = cache[appArg.period].timestamp + CACHE_EXPIRY - HALF_DAY

\* C15: addSale on a sale that fails validateSaleData returns false and
\* leaves the working set, the cache and the store as they were.
C15_InvalidChangesNothing ==
  [][((Called("addSale") \/ Called("addSale:await"))
        /\ Len(validateSaleData(appArg'.sale)) > 0) =>
       /\ appOp' = "addSale"
       /\ appRet' = Bool(FALSE)
       /\ UNCHANGED <<salesData, cache, idbSales, lsSales, pending,
                      nextSeq>>]_vars

C15_Witness ==
  /\ appOp = "addSale"
  /\ appRet = Bool(FALSE)
  /\ appArg.sale.productName = Str(<<>>)
  /\ salesData # <<>>
  /\ cache # EmptyCache
  /\ idbSales # <<>>

\* C16: in every reachable state every inventory record has
\* currentStock >= 0.
C16_StockNeverNegative ==
  \A i \in DOMAIN inventory : inventory[i].currentStock >= 0

\* the step is a call of the inventory operation op
InventoryCalled(op) == invOp' = op /\ now' = now

\* C17: once the application runs (initializeComponents has called
\* inventory.init()), a 'new-sale' event whose product name matches a
\* tracked record takes 1 from that record's currentStock (0 stays 0), adds
\* 1 to its totalSales, and changes no other record.
C17_SaleDecrementsOnce ==
  [][(InventoryCalled("new-sale") /\ listeners > 1
        /\ Truthy(invArg'.sale.productName)
        /\ findProductByName(inventory, invArg'.sale.productName[2]) # 0) =>
       LET i == findProductByName(inventory, invArg'.sale.productName[2])
       IN /\ Len(inventory') = Len(inventory)
          /\ inventory'[i] =
               [inventory[i] EXCEPT
                  !.currentStock = IF @ - 1 < 0 THEN 0 ELSE @ - 1,
                  !.totalSales = @ + 1]
          /\ \A k \in DOMAIN inventory \ {i} : inventory'[k] = inventory[k]
    ]_vars

StockOf(inv, id) == inv[MapIndex(inv, id)].currentStock
\* no alert was emitted for the record within the cooldown
UnAlerted(id) == alertLog[id] = 0 \/ now - alertLog[id] >= ALERT_COOLDOWN

\* C18: an alert emitted for a record comes at least 30 minutes after the
\* previous alert for that record, and an operation emits at most one alert
\* per record; an alert that reports a stock of 0 or less is the
\* out-of-stock alert, and when addProduct, a stock edit or a sale changes
\* the stock of an un-alerted record to 0 or less the out-of-stock alert is
\* emitted for it.  A record is the entry of the map from the time it is
\* added until it is removed.
C18_AlertsApart ==
  [][now' = now =>
       /\ \A k \in DOMAIN alerts' :
            /\ alerts'[k].prev # 0 =>
                 alerts'[k].at - alerts'[k].prev >= ALERT_COOLDOWN
            /\ alerts'[k].stock <= 0 <=> alerts'[k].kind = "out"
       /\ \A k, m \in DOMAIN alerts' :
            alerts'[k].id = alerts'[m].id => k = m
       /\ \A id \in ProductIds :
            (/\ invOp' \in {"addProduct", "editStock", "new-sale"}
             /\ MapIndex(inventory', id) # 0
             /\ \/ MapIndex(inventory, id) = 0
                \/ StockOf(inventory', id) # StockOf(inventory, id)
             /\ StockOf(inventory', id) <= 0
             /\ UnAlerted(id)) =>
              \E k \in DOMAIN alerts' :
                alerts'[k].id = id /\ alerts'[k].kind = "out"
    ]_vars

\* the out-of-stock alert of a record whose previous alert, a low-stock
\* alert, was emitted exactly 30 minutes earlier
C18_Witness ==
  \E k \in DOMAIN alerts :
    /\ alerts[k].kind = "out"
    /\ alerts[k].prev # 0
    /\ alerts[k].at - alerts[k].prev = ALERT_COOLDOWN
    /\ now = alerts[k].at

NegativeNumber(v) == v[1] = "number" /\ v[2] < 0
InvalidProductData(d) ==
  \/ ~Truthy(d.name)
  \/ trim(d.name[2]) = <<>>
  \/ NegativeNumber(d.currentStock)
  \/ NegativeNumber(d.price)
  \/ NegativeNumber(d.minStock)
NegativePrompt(v) == promptAccepted(v) /\ v[2][1] = "-"

\* C19: addProduct with an empty name or a negative stock, price or
\* minStock, and an edit of the stock or of the price to a negative number,
\* are rejected and leave the record map and the persisted inventory as
\* they were; no record holds a negative price or a negative minStock.
C19_InvalidRejected ==
  [][now' = now =>
       /\ ((invOp' = "addProduct" /\ InvalidProductData(invArg'.data))
             \/ (invOp' \in {"editStock", "editPrice"}
                   /\ NegativePrompt(invArg'.text))) =>
            (~invRet' /\ UNCHANGED <<inventory, lsInventory>>)
       /\ \A i \in DOMAIN inventory' :
            inventory'[i].price >= 0 /\ inventory'[i].minStock >= 0
    ]_vars

\* C20: a read of the store that completes once saveSalesData has begun,
\* while it runs or after it failed part-way, returns the whole set stored
\* before or the whole set given to saveSalesData.
C20_ReadsSeeWholeSet ==
  (appOp = "getSalesData:done" /\ saved.state \in {"running", "failed"}) =>
    appRet.list \in saved.old \cup {saved.new}

\* C21: saveSalesData(events) followed by getSalesWithFilter({}) returns
\* exactly the events given, with their fields, whether IndexedDB or
\* localStorage took the write.
C21_QueryReturnsSaved ==
  (/\ appOp = "getSalesWithFilter:done"
   /\ appArg.afterSave /\ appArg.limit = 0
   /\ SaveReturned) =>
    appRet.list = saved.new

\* C22: a valid sale of the stream that carries a timestamp enters the
\* working set with that timestamp; the time of receipt is used only for
\* a sale without one.
C22_PayloadTimestampKept ==
  [][(appOp' = "handleSale:await" /\ now' = now) =>
       Head(salesData').timestamp =
         IF Truthy(appArg'.sale.timestamp)
           THEN Ticks(appArg'.sale.timestamp)
           ELSE Num(appArg'.at)
    ]_vars

\* the events of a list are in the order the stream delivered them, oldest
\* first
Ascending(list) ==
  \A i, j \in DOMAIN list : i < j => list[i].seq < list[j].seq
\* the writes of storage.addSale that await their IndexedDB request, in
\* the order they were requested
PendingWrites ==
  LET RECURSIVE writes(_)
      writes(q) ==
        IF q = <<>> THEN <<>>
        ELSE IF Head(q).task = "addSale" /\ Head(q).via = "idb"
          THEN <<Head(q).sale>> \o writes(Tail(q))
          ELSE writes(Tail(q))
  IN writes(pending)
InWorkingSet(n) == \E i \in DOMAIN salesData : salesData[i].seq = n

\* C23: the working set holds the sales of the stream in the order they
\* arrived, most recent first, and the writes to the store are requested
\* and land in that order, also while the write of an earlier sale is
\* pending; a sale is in the working set by the time its write is
\* requested, so before it completes.
C23_OrderKept ==
  /\ \A i, j \in DOMAIN salesData :
       i < j => salesData[i].seq > salesData[j].seq
  /\ Ascending(PendingWrites)
  /\ Ascending(idbSales) /\ Ascending(lsSales)
  /\ \A i \in DOMAIN idbSales, k \in DOMAIN PendingWrites :
       idbSales[i].seq < PendingWrites[k].seq
  /\ \A k \in DOMAIN PendingWrites : InWorkingSet(PendingWrites[k].seq)
  /\ \A i \in DOMAIN idbSales : InWorkingSet(idbSales[i].seq)
  /\ \A i \in DOMAIN lsSales : InWorkingSet(lsSales[i].seq)

\* a second sale arrived while the write of the first was pending, and
\* both are in the working set
C23_Witness ==
  /\ Len(PendingWrites) = 2
  /\ Len(salesData) = 2
  /\ appOp = "handleSale:await"

\* C24: the delay of every reconnect timer is at most 30000 ms, and the
\* delay of attempt a + 1 is never smaller than the delay of attempt a,
\* whatever the jitter of the two.
C24_DelayCappedAndMonotone ==
  /\ scheduledDelay <= 30000
  /\ backoffAttempts >= 2 => scheduledDelay >= previousDelay

\* the fifth attempt is the first the ceiling cuts; the fourth had the
\* largest jitter
C24_Witness ==
  /\ backoffAttempts = 5
  /\ previousDelay = 24999
  /\ scheduledDelay = 30000

\* the close event of a WebSocket object this.ws no longer refers to is
\* delivered
StaleClose ==
  /\ lastOp' \in {"onClose", "onError+onClose"}
  /\ Detached(S') < Detached(S)

\* C25: the close event of a transport that a later connect() has
\* superseded leaves the current connection alone: heartbeat, connection
\* timeout, reconnectAttempts, connectionState and the reconnect timers
\* stay as they are.
C25_StaleCloseIgnored ==
  [][StaleClose =>
       UNCHANGED <<heartbeatInterval, heartbeatTimers, connectionTimeout,
                   reconnectAttempts, connectionState, reconnectTimers>>
    ]_vars

\* a socket that was connecting has failed: its close event arrived or the
\* connection timeout closed it
AttemptFailed ==
  /\ wsState = WS_CONNECTING
  /\ wsState' \in {WS_CLOSING, WS_CLOSED}

\* C26: a connection attempt that fails is counted once and sets one
\* reconnect timer, whether it fails by its close event or by the
\* connection timeout, and no more than one reconnect timer is pending
\* at any time.
C26_OneTimerPerFailure ==
  [][/\ reconnectTimers' <= 1
     /\ (AttemptFailed /\ reconnectAttempts < MAX_RECONNECT_ATTEMPTS) =>
          /\ reconnectAttempts' = reconnectAttempts + 1
          /\ reconnectTimers' = reconnectTimers + 1
    ]_vars

\* C27: at most one heartbeat timer exists, it exists only while
\* connectionState is 'connected', and a heartbeat tick puts nothing on
\* the message queue.
C27_HeartbeatOnlyConnected ==
  [][/\ heartbeatTimers' <= 1
     /\ heartbeatTimers' > 0 => connectionState' = CONNECTED
     /\ lastOp' = "heartbeat" => messageQueue' = messageQueue
    ]_vars

\* C28: the snapshot getAnalytics returns was computed from the working
\* set as it is: once a reload has replaced the working set, totalSales
\* is the number of its sales in the window of the period.
C28_SnapshotOfCurrentSet ==
  (/\ appOp = "getAnalytics"
   /\ \A k \in DOMAIN pending : pending[k].task # "loadData") =>
    appRet.snapshot.totalSales =
      Len(filterByTimePeriod(salesData, appArg.period, now))

\* C29: a query without filter, sort or limit returns every event whose
\* write had reported success when the query began, also when IndexedDB
\* failed for the write, localStorage took it, and IndexedDB serves the
\* reads.
C29_ReadYourWrites ==
  (appOp = "getSalesWithFilter:done" /\ appArg.limit = 0) =>
    \A i \in DOMAIN appArg.acked :
      \E j \in DOMAIN appRet.list : appRet.list[j] = appArg.acked[i]

\* C30: storage.addSale does not throw: it returns true or false.  When
\* it returns true one backend has gained the event, once; when it
\* returns false neither backend has changed and no request for the
\* event is pending.  A read returns a list.
C30_AppendNeverThrows ==
  [][/\ Called("storage.addSale:done") =>
          /\ appRet'.kind = "boolean"
          /\ Len(pending') <= Len(pending)
          /\ IF appRet'.value
               THEN \/ /\ idbSales' = Append(idbSales, appArg'.record)
                       /\ lsSales' = lsSales
                    \/ /\ idbSales' = idbSales
                       /\ lsSales' = Append(lsSales, appArg'.record)
               ELSE idbSales' = idbSales /\ lsSales' = lsSales
     /\ Called("getSalesData:done") => appRet'.kind = "list"
    ]_vars

(***************************************************************************)
(* C31  The localStorage backend after an append.                          *)
(***************************************************************************)
IsSuffix(s, t) ==
  /\ Len(s) <= Len(t)
  /\ s = SubSeq(t, Len(t) - Len(s) + 1, Len(t))

\* what does hold of the sales localStorage holds after storage.addSale:
\* they are at most 2 * MAX_FEED_ITEMS; after a call that returns true
\* they are a suffix of the sales held before followed by the new one,
\* which is the last of them; after a call that returns false (the write
\* threw for the quota) they are a suffix of the sales held before,
\* without the new one
TrimKeepsNewestOfWritten ==
  [][(Called("storage.addSale:done") /\ ~db) =>
       /\ Len(lsSales') <= 2 * MAX_FEED_ITEMS
       /\ IF appRet' = Bool(TRUE)
            THEN /\ IsSuffix(lsSales', Append(lsSales, appArg'.record))
                 /\ lsSales' # <<>>
                 /\ lsSales'[Len(lsSales')] = appArg'.record
            ELSE IsSuffix(lsSales', lsSales)]_vars

\* C31: without IndexedDB, after every storage.addSale localStorage holds
\* at most 2 * MAX_FEED_ITEMS sales, and they are a suffix of the
\* insertion sequence that ends with the sale just appended
C31_TrimKeepsNewest ==
  [][(Called("storage.addSale:done") /\ ~db) =>
       /\ Len(lsSales') <= 2 * MAX_FEED_ITEMS
       /\ IsSuffix(lsSales', Append(lsSales, appArg'.record))
       /\ lsSales' # <<>>
       /\ lsSales'[Len(lsSales')] = appArg'.record]_vars

\* an append has overflowed localStorage and the oldest sales are gone
TrimHappened ==
  /\ appOp = "storage.addSale:done"
  /\ appRet = Bool(TRUE)
  /\ ~db
  /\ Len(lsSales) = MAX_FEED_ITEMS
  /\ lsSales[1].seq = MAX_FEED_ITEMS + 2
  /\ lsSales[Len(lsSales)] = appArg.record

(***************************************************************************)
(* C32  The window of the previous period.                                 *)
(***************************************************************************)
\* filterByTimePeriod keeps the sale
InCurrent(sale, period, t) ==
  /\ sale.timestamp[1] = "number"
  /\ sale.timestamp[2] >= getTimePeriod(period, t).start
  /\ sale.timestamp[2] <= getTimePeriod(period, t).end

\* C32: when the comparison of 'week' or 'month' is computed, the window of
\* the previous period is as long as the window of the period and ends
\* where it starts, no sale of the working set is counted in both, and
\* no sale from the start of the previous window on is counted in neither
C32_PreviousWindowAdjacent ==
  [][(Called("getComparisonToPrevious")
        /\ appArg'.period \in {WEEK, MONTH}) =>
       LET period == appArg'.period
           current == getTimePeriod(period, now)
           previous == previousPeriod(period, now)
       IN /\ previous.end - previous.start = current.end - current.start
          /\ previous.end = current.start
          /\ \A i \in DOMAIN salesData :
                /\ ~(InCurrent(salesData[i], period, now)
                       /\ InPrevious(salesData[i], period, now))
                /\ (/\ salesData[i].timestamp[1] = "number"
                    /\ salesData[i].timestamp[2] >= previous.start
                    /\ salesData[i].timestamp[2] <= now)
                     => (InCurrent(salesData[i], period, now)
                           \/ InPrevious(salesData[i], period, now))
     ]_vars

\* no sale is counted in both the figures of the period and those of the
\* previous period
NoSaleCountedTwice ==
  [][(Called("getComparisonToPrevious")
        /\ appArg'.period \in {WEEK, MONTH}) =>
       \A i \in DOMAIN salesData :
         ~(InCurrent(salesData[i], appArg'.period, now)
             /\ InPrevious(salesData[i], appArg'.period, now))]_vars

(***************************************************************************)
(* C33  The window of a period.                                            *)
(***************************************************************************)
\* the start of the trailing window of a period at time t: local
\* midnight for 'today', 7 and 30 times 24 hours before t for 'week' and
\* 'month'
TrailingStart(period, t) ==
  CASE period = TODAY -> (t \div TICKS_PER_DAY) * TICKS_PER_DAY
    [] period = WEEK -> t - 7 * TICKS_PER_DAY
    [] period = MONTH -> t - 30 * TICKS_PER_DAY
    [] OTHER -> 0

InTrailing(sale, period, t) ==
  /\ sale.timestamp[1] = "number"
  /\ sale.timestamp[2] >= TrailingStart(period, t)
  /\ sale.timestamp[2] <= t

\* C33: a snapshot of 'today', 'week' or 'month' counts exactly the sales
\* of the working set whose timestamp lies since local midnight, in the
\* trailing 7 * 24 hours, or in the trailing 30 days before the time it
\* is computed
C33_TrailingWindowCounted ==
  [][(Called("getAnalytics") /\ appArg'.period \in {TODAY, WEEK, MONTH}) =>
       appRet'.snapshot.totalSales =
         Cardinality({i \in DOMAIN salesData :
                        InTrailing(salesData[i], appArg'.period, now)})
     ]_vars

(***************************************************************************)
(* C34  The comparison to the previous period.                             *)
(***************************************************************************)
\* change is the percent change from previous to current, 100 or 0 where
\* previous is 0
IsPercentChange(change, current, previous) ==
  IF previous[1] = 0
    THEN RatEq(change, IF current[1] > 0 THEN Rat(100, 1) ELSE Rat(0, 1))
    ELSE change[1] * previous[1] * current[2] =
           (current[1] * previous[2] - previous[1] * current[2])
             * 100 * change[2]

Reports(metric, current, previous) ==
  /\ RatEq(metric.current, current)
  /\ RatEq(metric.previous, previous)
  /\ IsPercentChange(metric.change, current, previous)

AverageOf(data) ==
  IF Len(data) = 0 THEN Rat(0, 1) ELSE Rat(SumPrices(data), Len(data))

\* the comparison reports the changes of count, revenue and average
\* purchase from the sales previous to the sales current
ReportsAll(comparison, current, previous) ==
  /\ ~comparison.null
  /\ Reports(comparison.sales, Rat(Len(current), 1), Rat(Len(previous), 1))
  /\ Reports(comparison.revenue, Rat(SumPrices(current), 1),
             Rat(SumPrices(previous), 1))
  /\ Reports(comparison.averagePurchase, AverageOf(current),
             AverageOf(previous))

ComparisonComputed ==
  /\ appOp' \in {"getComparisonToPrevious", "getAnalytics"}
  /\ now' = now
  /\ Len(filterByTimePeriod(salesData, appArg'.period, now)) > 0

KeysIn(name) ==
  {PRODUCT_MAPPING[i] : i \in
     {j \in DOMAIN PRODUCT_MAPPING :
        /\ PRODUCT_MAPPING[j] # DEFAULT_KEY
        /\ includes(trim(toLowerCase(name)), PRODUCT_MAPPING[j])}}

\* C35: getProductInfo returns the entry of a longest key of the table
\* that occurs in the lower-cased name, and the default entry when no key
\* occurs
C35_LongestKeyWins ==
  appOp = "getProductInfo" =>
    LET keys == KeysIn(appArg.sale.productName[2])
    IN IF keys = {} THEN appRet.info = DEFAULT_KEY
       ELSE /\ appRet.info \in keys
            /\ \A k \in keys : Len(k) <= Len(appRet.info)

\* the entry a name gets is the one it gets from the table in the
\* opposite order
OrderOfTableIrrelevant ==
  appOp = "getProductInfo" =>
    appRet.info = getProductInfoReversed(appArg.sale.productName[2])

\* a name in which two keys occur has got the entry of the longer one
LongerKeyWon ==
  /\ appOp = "getProductInfo"
  /\ \E k \in KeysIn(appArg.sale.productName[2]) :
        Len(k) < Len(appRet.info)
  /\ appRet.info \in KeysIn(appArg.sale.productName[2])

(***************************************************************************)
(* C36  Products created by sales.                                         *)
(***************************************************************************)
\* addProduct rejects the product a sale gives: its name is blank or its
\* price negative
RejectedAsProduct(sale) ==
  \/ trim(sale.productName[2]) = <<>>
  \/ extractPrice(sale.price) < 0

Untracked(sale) ==
  /\ Truthy(sale.productName)
  /\ findProductByName(inventory, sale.productName[2]) = 0

\* the sale has added one record to the inventory: with stock 0, under
\* its name, and the one findProductByName returns for the name
CreatedOne(sale) ==
  /\ Len(inventory') = Len(inventory) + 1
  /\ SubSeq(inventory', 1, Len(inventory)) = inventory
  /\ inventory'[Len(inventory')].currentStock = 0
  /\ inventory'[Len(inventory')].name = sale.productName[2]
  /\ findProductByName(inventory', sale.productName[2]) = Len(inventory')

Dispatches == appOp' = "handleSale:done" /\ Len(pending') < Len(pending)

\* Every sale whose handleSale is suspended stays suspended or is the one
\* whose 'new-sale' event this step dispatches: none is dropped, and none
\* is dispatched twice.
EveryAddedSaleDispatchedOnce ==
  [][\A k \in DOMAIN pending :
       LET n == pending[k].sale.seq
           left == {j \in DOMAIN pending' : pending'[j].sale.seq = n}
       IN IF Dispatches /\ appArg'.record.seq = n
            THEN left = {} /\ invArg'.sale = detailOf(pending[k].sale)
            ELSE Cardinality(left) = 1]_vars

\* C37: 'new-sale' events are dispatched in the order in which the sales
\* were ingested: when the event of a sale is dispatched, no sale
\* ingested before it is still being processed.
C37_DispatchedInIngestOrder ==
  [][Dispatches =>
       \A k \in DOMAIN pending : pending[k].sale.seq >= appArg'.record.seq]_vars

\* a later sale has been dispatched while an earlier one waits for its sound
OvertakenSale ==
  /\ appOp = "handleSale:done"
  /\ \E k \in DOMAIN pending :
       /\ pending[k].sale.seq < appArg.record.seq
       /\ pending[k].task = "notifyPurchase"

\* ---- C38
\* the sale of the working set that was ingested last
NewestOf(data) ==
  CHOOSE i \in DOMAIN data : \A j \in DOMAIN data : data[j].seq <= data[i].seq

\* C38: the working set is ordered most recently ingested first, and the
\* lastSaleTime of getRealTimeStats is the timestamp of the sale ingested
\* last, null for an empty working set.
C38_NewestFirst ==
  /\ \A i, j \in DOMAIN salesData :
       i < j => salesData[i].seq > salesData[j].seq
  /\ appOp = "getRealTimeStats" =>
       appRet.info = IF salesData = <<>> THEN JSNULL
                     ELSE salesData[NewestOf(salesData)].timestamp

\* the order holds as long as the working set was not reloaded
NewestFirstUntilReload == reloaded \/ C38_NewestFirst

\* the statistics of a reloaded working set of two sales
StatsAfterReload ==
  /\ appOp = "getRealTimeStats"
  /\ reloaded
  /\ Len(salesData) > 1

\* ---- C39
RECURSIVE SumOver(_, _)
SumOver(f, keys) ==
  IF keys = {} THEN 0
  ELSE LET x == CHOOSE x \in keys : TRUE
       IN f[x] + SumOver(f, keys \ {x})

\* the snapshot returned last, with its distributions
SnapshotReturned == appOp = "getAnalytics" /\ appRet.kind = "snapshot"

\* the buckets of the time series add up to the totals and are in ascending
\* order of their timestamps, and the category counts add up
SeriesAndCategoriesConserve ==
  SnapshotReturned =>
    LET snap == appRet.snapshot
        series == appRet.info.timeSeriesData
    IN /\ SumOver([k \in DOMAIN series |-> series[k].sales],
                  DOMAIN series) = snap.totalSales
       /\ SumOver([k \in DOMAIN series |-> series[k].revenue],
                  DOMAIN series) = snap.totalRevenue
       /\ \A i, j \in DOMAIN series :
            i < j => series[i].timestamp <= series[j].timestamp
       /\ SumOver(appRet.info.categoryCounts, CATEGORIES) = snap.totalSales

\* the hourly and the day-of-week buckets add up to totalSales
HoursAndDaysConserve ==
  SnapshotReturned =>
    /\ SumOver(appRet.info.hourlyDistribution, 0..23)
         = appRet.snapshot.totalSales
    /\ SumOver(appRet.info.dailyDistribution, 0..6)
         = appRet.snapshot.totalSales

\* C39: every snapshot conserves the event count: the hourly buckets, the
\* day-of-week buckets, the sales of the time-series buckets and the
\* category counts each add up to totalSales, the revenue of the
\* time-series buckets adds up to totalRevenue, and the time-series buckets
\* are in ascending order of their timestamps, also for a working set
\* reloaded from the store after an import.
C39_SnapshotConservesCount ==
  SeriesAndCategoriesConserve /\ HoursAndDaysConserve

\* a working set that was not reloaded conserves the count in every
\* distribution
ConservesUntilReload == reloaded \/ C39_SnapshotConservesCount

\* a snapshot of a reloaded working set that holds sales
SnapshotAfterReload ==
  /\ SnapshotReturned
  /\ reloaded
  /\ appRet.snapshot.totalSales > 0

TypeOK ==
  /\ enableSounds \in BOOLEAN
  /\ url \in Urls
  /\ wsState \in LiveStates \cup {NULL, WS_CLOSED}
  /\ connectionState \in CONNECTION_STATES
  /\ reconnectAttempts \in 0..MAX_RECONNECT_ATTEMPTS
  /\ heartbeatTimers \in 0..1
  /\ orphanTimeouts = 0
  /\ hung = FALSE
  /\ detached[WS_CONNECTING] = 0 /\ detached[WS_OPEN] = 0
====
